---- MODULE Spec2Model ----
(***************************************************************************)
(* Model of the furniture recommendation backend:                          *)
(*   services/product_service.py        (ProductService)                   *)
(*   services/recommendation_service.py (RecommendationService)            *)
(*   services/analytics_service.py      (AnalyticsService)                 *)
(*   routers/products.py                (HTTP routes)                      *)
(*                                                                         *)
(* Conventions.  Similarity scores are integers in hundredths (0.3 is 30,  *)
(* 0.95 is 95).  Prices are whole numbers.  An Optional argument is a      *)
(* sequence: <<>> is Python's None, <<v>> is the value v.  A Python dict   *)
(* is a record; a key is present iff it is in the record's DOMAIN.         *)
(*                                                                         *)
(* Specifications.  Spec: requests served one at a time, each service call *)
(* one step.  LiveSpec: Spec with responses eventually delivered.          *)
(* ConcSpec: engine calls of two requests interleaved at their external    *)
(* calls, on a fixed catalog.  ReasonSpec: _get_recommendation_reason      *)
(* applied to arguments drawn around its thresholds.  StoredSpec:          *)
(* get_similar_products on catalogs where several products share one       *)
(* embedding.  IndexSpec: the analytics reads on an index whose records    *)
(* may lack the category or the price field.  RouteSpec: the route table   *)
(* of routers/products.py applied to request paths.                        *)
(***************************************************************************)
EXTENDS Integers, Sequences, FiniteSets, TLC

(***************************************************************************)
(* Bounds of the model.                                                    *)
(***************************************************************************)
\* number of rows of the dataset fixture that uploads draw from
NumRows == 5
\* longest product list handed to store_products_in_pinecone
MaxBatch == 2
\* explicit top_k arguments range over -1..MaxTopK and DEFAULT_TOP_K
MaxTopK == 1

(***************************************************************************)
(* core/config.py                                                          *)
(***************************************************************************)
DEFAULT_TOP_K == 5
SIMILARITY_THRESHOLD == 30

None == <<>>
Some(v) == <<v>>

(***************************************************************************)
(* Python helpers.                                                         *)
(***************************************************************************)
\* seq[:k] for any integer k
SliceTo(s, k) ==
    IF k >= 0
    THEN SubSeq(s, 1, IF k < Len(s) THEN k ELSE Len(s))
    ELSE SubSeq(s, 1, IF Len(s) + k > 0 THEN Len(s) + k ELSE 0)

\* seq[a:b] for non-negative a, b
SliceFromTo(s, a, b) ==
    SubSeq(s, a + 1, IF b < Len(s) THEN b ELSE Len(s))

\* sep.join(parts)
RECURSIVE Join(_, _)
Join(parts, sep) ==
    IF parts = <<>> THEN ""
    ELSE IF Len(parts) = 1 THEN parts[1]
    ELSE parts[1] \o sep \o Join(Tail(parts), sep)

\* [x for x in s if Keep(x)]
RECURSIVE SelectSeqIdx(_, _)
SelectSeqIdx(s, keep) ==
    IF s = <<>> THEN <<>>
    ELSE (IF keep[1] THEN <<s[1]>> ELSE <<>>) \o
         SelectSeqIdx(Tail(s), Tail(keep))

\* dict with key k set to v
WithKey(p, k, v) == [f \in DOMAIN p \cup {k} |-> IF f = k THEN v ELSE p[f]]

\* dict.get(k, default)
Get(p, k, default) == IF k \in DOMAIN p THEN p[k] ELSE default

\* list.sort(key=..., reverse=True) is stable: among the items not yet
\* placed, the first one (in list order) with the largest key comes next.
RECURSIVE SortDescMutAsc(_, _)
SortDescMutAsc(s, key) ==
    IF s = <<>> THEN <<>>
    ELSE LET idx == 1..Len(s)
             best == CHOOSE i \in idx :
                        /\ \A j \in idx : s[j][key] >= s[i][key]
                        /\ \A j \in idx : s[j][key] = s[i][key] => i <= j
             rest == [j \in 1..(Len(s) - 1) |-> IF j < best THEN s[j] ELSE s[j + 1]]
         IN  <<s[best]>> \o SortDescMutAsc(rest, key)

\* a descending sort that is not stable: of equal keys the last comes first
RECURSIVE SortDescMutLast(_, _)
SortDescMutLast(s, key) ==
    IF s = <<>> THEN <<>>
    ELSE LET idx == 1..Len(s)
             best == CHOOSE i \in idx :
                        /\ \A j \in idx : s[j][key] <= s[i][key]
                        /\ \A j \in idx : s[j][key] = s[i][key] => j <= i
             rest == [j \in 1..(Len(s) - 1) |-> IF j < best THEN s[j] ELSE s[j + 1]]
         IN  <<s[best]>> \o SortDescMutLast(rest, key)

RECURSIVE SortDesc(_, _)
SortDesc(s, key) ==
    IF s = <<>> THEN <<>>
    ELSE LET idx == 1..Len(s)
             best == CHOOSE i \in idx :
                        /\ \A j \in idx : s[j][key] <= s[i][key]
                        /\ \A j \in idx : s[j][key] = s[i][key] => i <= j
             rest == [j \in 1..(Len(s) - 1) |-> IF j < best THEN s[j] ELSE s[j + 1]]
         IN  <<s[best]>> \o SortDesc(rest, key)

(***************************************************************************)
(* Dataset fixture: the product dicts (rows of an uploaded file) that      *)
(* store_products_in_pinecone is handed.  A raw value is tagged with its   *)
(* Python type: "none", "num", "str" (categories), "chars" (a price string,*)
(* one character per element) or "list".                                   *)
(***************************************************************************)
PyNone == [kind |-> "none"]
PyNum(n) == [kind |-> "num", v |-> n]
PyStr(s) == [kind |-> "str", v |-> s]
PyChars(cs) == [kind |-> "chars", v |-> cs]
PyList(l) == [kind |-> "list", v |-> l]

Row(id, title, cats, price) ==
    [uniq_id |-> id, title |-> title, categories |-> cats, price |-> price,
     description |-> ""]

AllRows ==
    << Row("a", "Oak Chair", PyStr("Chairs"), PyChars(<<"$", "1", "5", "0">>)),
       Row("b", "Pine Table", PyStr("Tables"), PyNum(900)),
       Row("a", "Oak Chair", PyStr("Chairs"),
           PyChars(<<"$", "1", ",", "5", "0", "0">>)),
       Row("c", "Sofa", PyStr("sofa"), PyChars(<<"2", "0", "0">>)),
       Row("b", "Sofa", PyStr("Sofa"), PyChars(<<"N", "a", "N">>)),
       Row("c", "Oak Chair", PyList(<<"sofa", "bed">>), PyNum(800)),
       Row("d", "Pine Table", PyNone, PyChars(<<"a", "b", "c">>)),
       Row("d", "Sofa", PyStr(" Tables "), PyChars(<<" ", "9", "5", " ">>)),
       Row("b", "Oak Chair", PyStr("Chairs"), PyNum(300)) >>

\* the rows in use, by their index in AllRows
RowIds == 1..(IF NumRows < Len(AllRows) THEN NumRows ELSE Len(AllRows))

Ids == {"a", "b", "c", "d"}
Queries == {"chair", "seat", "stool"}
Categories == {"Chairs", "Tables", "sofa"}

(***************************************************************************)
(* ProductService: field parsing.                                          *)
(***************************************************************************)
NullWords == {<<"n", "a", "n">>, <<"n", "o", "n", "e">>, <<>>,
              <<"n", "u", "l", "l">>}
NullStrings == {"nan", "none", "", "null"}

LowerChar(c) ==
    CASE c = "N" -> "n" [] c = "A" -> "a" [] c = "O" -> "o" [] c = "E" -> "e"
      [] c = "U" -> "u" [] c = "L" -> "l" [] OTHER -> c
LowerChars(cs) == [i \in 1..Len(cs) |-> LowerChar(cs[i])]

RECURSIVE LStrip(_)
LStrip(cs) == IF cs # <<>> /\ cs[1] = " " THEN LStrip(Tail(cs)) ELSE cs
RECURSIVE RStrip(_)
RStrip(cs) ==
    IF cs # <<>> /\ cs[Len(cs)] = " " THEN RStrip(SubSeq(cs, 1, Len(cs) - 1))
    ELSE cs
StripChars(cs) == RStrip(LStrip(cs))

RECURSIVE RemoveChar(_, _)
RemoveChar(cs, c) ==
    IF cs = <<>> THEN <<>>
    ELSE (IF cs[1] = c THEN <<>> ELSE <<cs[1]>>) \o RemoveChar(Tail(cs), c)

Digits == {"0", "1", "2", "3", "4", "5", "6", "7", "8", "9"}
DigitVal(c) ==
    CASE c = "0" -> 0 [] c = "1" -> 1 [] c = "2" -> 2 [] c = "3" -> 3
      [] c = "4" -> 4 [] c = "5" -> 5 [] c = "6" -> 6 [] c = "7" -> 7
      [] c = "8" -> 8 [] c = "9" -> 9
RECURSIVE DigitsVal(_, _)
DigitsVal(cs, acc) ==
    IF cs = <<>> THEN acc ELSE DigitsVal(Tail(cs), 10 * acc + DigitVal(cs[1]))

\* float(cleaned): Some(value) for a run of digits, None for ValueError.
\* (The fixture holds no decimal points, signs or exponents.)
FloatParse(cs) ==
    IF cs # <<>> /\ \A i \in 1..Len(cs) : cs[i] \in Digits
    THEN Some(DigitsVal(cs, 0)) ELSE None

clean_price(price_str) ==
    IF price_str.kind = "none" THEN 0
    ELSE IF price_str.kind = "num" THEN price_str.v
    ELSE IF LowerChars(price_str.v) \in NullWords THEN 0
    ELSE LET stripped == StripChars(price_str.v) IN
         IF stripped = <<>> \/ LowerChars(stripped) \in NullWords THEN 0
         ELSE LET cleaned == StripChars(RemoveChar(RemoveChar(stripped, "$"), ","))
                  parsed == FloatParse(cleaned)
              IN  IF parsed = None THEN 0 ELSE parsed[1]

\* str.lower() and str.strip() on the category strings of the fixture
LowerStr(s) ==
    CASE s = "Chairs" -> "chairs" [] s = "Tables" -> "tables"
      [] s = "Sofa" -> "sofa" [] s = " Tables " -> " tables "
      [] s = "Unknown" -> "unknown" [] OTHER -> s
StripStr(s) == CASE s = " Tables " -> "Tables" [] OTHER -> s

parse_categories(categories_str) ==
    IF categories_str.kind = "none" THEN "Unknown"
    ELSE IF categories_str.kind = "list" THEN Join(categories_str.v, ", ")
    ELSE IF LowerStr(categories_str.v) \in NullStrings THEN "Unknown"
    ELSE LET stripped == StripStr(categories_str.v) IN
         IF stripped = "" \/ LowerStr(stripped) \in NullStrings THEN "Unknown"
         ELSE stripped

(***************************************************************************)
(* Embedding provider (SentenceTransformer.encode) and cosine similarity.  *)
(* A text is the tuple of the parts an f-string joins with spaces; an      *)
(* embedding is a direction 0..7; the cosine of two embeddings depends on  *)
(* the distance of their directions.                                       *)
(***************************************************************************)
DirOf(word) ==
    CASE word = "chair" -> 0 [] word = "Oak Chair" -> 1 [] word = "stool" -> 2
      [] word = "Sofa" -> 3
      [] word = "seat" -> 6 [] word = "Pine Table" -> 6 [] word = "table" -> 7
      [] word = "modern sofa" -> 3 [] word = "office chair" -> 0
      [] word = "dining table" -> 7 [] word = "bedroom furniture" -> 4
      [] word = "storage solutions" -> 5
      [] OTHER -> 0

RECURSIVE SumDirs(_)
SumDirs(text) == IF text = <<>> THEN 0 ELSE DirOf(text[1]) + SumDirs(Tail(text))

Encode(text) == SumDirs(text) % 8

ZERO_VECTOR == -1

CosTable == <<100, 95, 90, 80, 70, 30, 29, 10>>

Cosine(u, v) ==
    IF u = ZERO_VECTOR \/ v = ZERO_VECTOR THEN 0
    ELSE CosTable[(IF u > v THEN u - v ELSE v - u) + 1]

(***************************************************************************)
(* State.                                                                  *)
(***************************************************************************)
VARIABLES
    indexExists,  \* the Pinecone index named PINECONE_INDEX_NAME exists
    catalog,      \* its vector records [id, values, metadata], in backend order
    backend,      \* which external collaborator is failing, if any
    pc,           \* "idle": no request in progress; "done": a call has returned;
                  \* "blocked": a call waits in an external call
    req,          \* the last call: operation and arguments
    out,          \* its outcome: ok, value or exc, the external calls made
    products_data,\* ProductService.products_data: the dataset last loaded by
                  \* load_dataset
    workers       \* the engine calls in flight when requests run concurrently

vars == <<indexExists, catalog, backend, pc, req, out, products_data, workers>>

\* "embed_down": encode raises; "query_down": query, fetch and upsert raise
BackendStates == {"up", "embed_down", "query_down"}

(***************************************************************************)
(* The Pinecone index (external): upsert, query, fetch.                    *)
(***************************************************************************)
Position(cat, id) ==
    IF \E i \in 1..Len(cat) : cat[i].id = id
    THEN CHOOSE i \in 1..Len(cat) : cat[i].id = id ELSE 0

\* a record deleted when its id is written again
UpsertOneMutToggle(cat, v) ==
    IF Position(cat, v.id) = 0 THEN Append(cat, v)
    ELSE SelectSeqIdx(cat, [i \in 1..Len(cat) |-> cat[i].id # v.id])

\* replace-or-insert of one record
UpsertOne(cat, v) ==
    IF Position(cat, v.id) = 0 THEN Append(cat, v)
    ELSE [cat EXCEPT ![Position(cat, v.id)] = v]

RECURSIVE IndexUpsert(_, _)
IndexUpsert(cat, vectors) ==
    IF vectors = <<>> THEN cat
    ELSE IndexUpsert(UpsertOne(cat, vectors[1]), Tail(vectors))

\* a metadata filter that compares category case-insensitively
MatchesFilterMutFuzzy(md, filter) ==
    /\ "category" \in DOMAIN filter =>
          LowerStr(md.category) = LowerStr(filter.category["$eq"])
    /\ "price" \in DOMAIN filter =>
          /\ "$gte" \in DOMAIN filter.price => md.price >= filter.price["$gte"]
          /\ "$lte" \in DOMAIN filter.price => md.price <= filter.price["$lte"]

\* Pinecone metadata filter: conjunction of $eq, $gte, $lte
MatchesFilter(md, filter) ==
    /\ "category" \in DOMAIN filter => md.category = filter.category["$eq"]
    /\ "price" \in DOMAIN filter =>
          /\ "$gte" \in DOMAIN filter.price => md.price >= filter.price["$gte"]
          /\ "$lte" \in DOMAIN filter.price => md.price <= filter.price["$lte"]

\* a query that ranks only the first top_k records that pass the filter
IndexQueryMutCutFirst(cat, vector, top_k, filter) ==
    LET passing == SelectSeqIdx(cat,
                      [i \in 1..Len(cat) |-> MatchesFilter(cat[i].metadata, filter)])
        scored == [i \in 1..Len(passing) |->
                      [id |-> passing[i].id,
                       score |-> Cosine(vector, passing[i].values),
                       metadata |-> passing[i].metadata]]
    IN  SortDesc(SliceTo(scored, top_k), "score")

\* index.query: up to top_k matches by descending score (equal scores in
\* backend order); top_k < 1 is rejected by the index
IndexQuery(cat, vector, top_k, filter) ==
    LET passing == SelectSeqIdx(cat,
                      [i \in 1..Len(cat) |-> MatchesFilter(cat[i].metadata, filter)])
        scored == [i \in 1..Len(passing) |->
                      [id |-> passing[i].id,
                       score |-> Cosine(vector, passing[i].values),
                       metadata |-> passing[i].metadata]]
    IN  SliceTo(SortDesc(scored, "score"), top_k)

\* index.fetch(ids=[id]).vectors
IndexFetch(cat, id) ==
    IF Position(cat, id) = 0 THEN None ELSE Some(cat[Position(cat, id)])

(***************************************************************************)
(* External calls and their failures.  A service method makes a sequence   *)
(* of external calls; the first one that fails raises, and no later call   *)
(* is made.                                                                *)
(***************************************************************************)
CallFails(call, bk, top_k) ==
    CASE call \in {"list_indexes", "create_index"} -> FALSE
      [] call = "encode" -> bk = "embed_down"
      [] call = "query" -> bk = "query_down" \/ top_k < 1
      [] call \in {"fetch", "upsert"} -> bk = "query_down"

FirstFailure(steps, bk, top_k) ==
    IF \E i \in 1..Len(steps) : CallFails(steps[i], bk, top_k)
    THEN CHOOSE i \in 1..Len(steps) :
            /\ CallFails(steps[i], bk, top_k)
            /\ \A j \in 1..(i - 1) : ~CallFails(steps[j], bk, top_k)
    ELSE 0

\* [ok, calls made, failed call]
RunCalls(steps, bk, top_k) ==
    LET f == FirstFailure(steps, bk, top_k) IN
    IF f = 0 THEN [ok |-> TRUE, calls |-> steps, failed |-> ""]
    ELSE [ok |-> FALSE, calls |-> SubSeq(steps, 1, f), failed |-> steps[f]]

LibraryError(call) == [type |-> "BackendError", msg |-> call \o " failed"]

\* except Exception as e: raise Exception(f"{prefix}: {str(e)}")
Wrap(prefix, e) == [type |-> "Exception", msg |-> prefix \o ": " \o e.msg]

Ok(value, calls) == [ok |-> TRUE, value |-> value, calls |-> calls]
Raise(exc, calls) == [ok |-> FALSE, exc |-> exc, calls |-> calls]

\* the index.query requests among the calls made: the arguments the index
\* was asked with (no `filter` argument is the empty filter)
Asked(calls, top_k, filter) ==
    IF \E i \in 1..Len(calls) : calls[i] = "query"
    THEN <<[top_k |-> top_k, filter |-> filter]>> ELSE <<>>

\* an outcome together with the index.query requests made on the way to it
Asking(o, asked) == WithKey(o, "asked", asked)

\* get_or_create_index creating the index whether or not it is listed
IndexStepsMutAlways(exists) == <<"list_indexes", "create_index">>

\* ProductService.get_or_create_index: its external calls
IndexSteps(exists) ==
    <<"list_indexes">> \o (IF exists THEN <<>> ELSE <<"create_index">>)


\* the index exists after these calls
ExistsAfter(exists, calls) ==
    exists \/ \E i \in 1..Len(calls) : calls[i] = "create_index"

\* {**a, **b}
Merge(a, b) ==
    [k \in DOMAIN a \cup DOMAIN b |-> IF k \in DOMAIN b THEN b[k] ELSE a[k]]

(***************************************************************************)
(* ProductService.                                                         *)
(***************************************************************************)
\* one element of `vectors` in store_products_in_pinecone
VectorOf(product) ==
    [id |-> product.uniq_id,
     values |-> Encode(<<Get(product, "title", ""),
                         parse_categories(Get(product, "categories", PyStr(""))),
                         Get(product, "description", "")>>),
     metadata |->
        [name |-> Get(product, "title", "Unknown Product"),
         category |-> parse_categories(Get(product, "categories", PyStr(""))),
         price |-> clean_price(Get(product, "price", PyNum(0))),
         description |-> Get(product, "description", ""),
         product_id |-> product.uniq_id]]

\* ProductService.store_products_in_pinecone; also yields the catalog left behind
store_products_in_pinecone(exists, cat, bk, products) ==
    LET steps == IndexSteps(exists) \o [i \in 1..Len(products) |-> "encode"] \o
                 <<"upsert">>
        r == RunCalls(steps, bk, 1)
        vectors == [i \in 1..Len(products) |-> VectorOf(products[i])]
    IN  IF r.ok
        THEN [ok |-> TRUE, value |-> TRUE, calls |-> r.calls,
              catalog |-> IndexUpsert(cat, vectors)]
        ELSE [ok |-> FALSE, calls |-> r.calls, catalog |-> cat,
              exc |-> Wrap("Error storing products in Pinecone",
                           LibraryError(r.failed))]

\* a search that answers an external failure with the empty list
search_similar_productsMutSwallow(exists, cat, bk, query, top_k, filters) ==
    LET r == RunCalls(IndexSteps(exists) \o <<"encode", "query">>, bk, top_k)
        matches == IndexQuery(cat, Encode(query), top_k, filters)
    IN  Asking(
        Ok(IF r.ok
           THEN [i \in 1..Len(matches) |->
                    Merge([id |-> matches[i].id,
                           similarity_score |-> matches[i].score],
                          matches[i].metadata)]
           ELSE <<>>,
           r.calls),
        Asked(r.calls, top_k, filters))

\* ProductService.search_similar_products
search_similar_products(exists, cat, bk, query, top_k, filters) ==
    LET r == RunCalls(IndexSteps(exists) \o <<"encode", "query">>, bk, top_k)
        \* `if filters:` - None and the empty dict both mean no filter
        matches == IndexQuery(cat, Encode(query), top_k, filters)
    IN  Asking(
        IF r.ok
        THEN Ok([i \in 1..Len(matches) |->
                    Merge([id |-> matches[i].id,
                           similarity_score |-> matches[i].score],
                          matches[i].metadata)],
                r.calls)
        ELSE Raise(Wrap("Error searching similar products", LibraryError(r.failed)),
                   r.calls),
        Asked(r.calls, top_k, filters))

\* a scan that fails when the index holds no record
get_all_productsMutEmpty(exists, cat, bk, limit, offset) ==
    LET r == RunCalls(IndexSteps(exists) \o <<"query">>, bk, limit + offset)
        matches == IndexQuery(cat, ZERO_VECTOR, limit + offset, <<>>)
        page == SliceFromTo(matches, offset, offset + limit)
    IN  Asking(
        IF r.ok /\ matches # <<>>
        THEN Ok([i \in 1..Len(page) |->
                    Merge([id |-> page[i].id], page[i].metadata)],
                r.calls)
        ELSE Raise(Wrap("Error getting all products",
                        LibraryError(IF r.ok THEN "query" ELSE r.failed)),
                   r.calls),
        Asked(r.calls, limit + offset, <<>>))

\* a scan whose page ends at position limit instead of offset + limit
get_all_productsMutEndAtLimit(exists, cat, bk, limit, offset) ==
    LET r == RunCalls(IndexSteps(exists) \o <<"query">>, bk, limit + offset)
        matches == IndexQuery(cat, ZERO_VECTOR, limit + offset, <<>>)
        page == SliceFromTo(matches, offset, limit)
    IN  Asking(
        IF r.ok
        THEN Ok([i \in 1..Len(page) |->
                    Merge([id |-> page[i].id], page[i].metadata)],
                r.calls)
        ELSE Raise(Wrap("Error getting all products", LibraryError(r.failed)),
                   r.calls),
        Asked(r.calls, limit + offset, <<>>))

\* ProductService.get_all_products
get_all_products(exists, cat, bk, limit, offset) ==
    LET r == RunCalls(IndexSteps(exists) \o <<"query">>, bk, limit + offset)
        matches == IndexQuery(cat, ZERO_VECTOR, limit + offset, <<>>)
        page == SliceFromTo(matches, offset, offset + limit)
    IN  Asking(
        IF r.ok
        THEN Ok([i \in 1..Len(page) |->
                    Merge([id |-> page[i].id], page[i].metadata)],
                r.calls)
        ELSE Raise(Wrap("Error getting all products", LibraryError(r.failed)),
                   r.calls),
        Asked(r.calls, limit + offset, <<>>))

\* ProductService.get_product_by_id: Some(dict) or None
get_product_by_id(exists, cat, bk, product_id) ==
    LET r == RunCalls(IndexSteps(exists) \o <<"fetch">>, bk, 1)
        found == IndexFetch(cat, product_id)
    IN  IF r.ok
        THEN Ok(IF found # None
                THEN Some(Merge([id |-> product_id], found[1].metadata))
                ELSE None,
                r.calls)
        ELSE Raise(Wrap("Error getting product by ID", LibraryError(r.failed)),
                   r.calls)

(***************************************************************************)
(* RecommendationService.                                                  *)
(***************************************************************************)
\* `top_k or settings.DEFAULT_TOP_K`: None and 0 are falsy
ResolveTopK(top_k) ==
    IF top_k = None \/ top_k[1] = 0 THEN DEFAULT_TOP_K ELSE top_k[1]

\* the price part of the filters dict
PriceFilter(price_min, price_max) ==
    Merge(IF price_min # None THEN [x \in {"$gte"} |-> price_min[1]] ELSE <<>>,
          IF price_max # None THEN [x \in {"$lte"} |-> price_max[1]] ELSE <<>>)

\* the filters dict of get_recommendations
BuildFilters(category_filter, price_min, price_max) ==
    Merge(IF category_filter # None /\ category_filter[1] # ""
          THEN [category |-> [x \in {"$eq"} |-> category_filter[1]]] ELSE <<>>,
          IF price_min # None \/ price_max # None
          THEN [price |-> PriceFilter(price_min, price_max)] ELSE <<>>)

\* a reason that also mentions the query
ReasonMutQuery(query, product, similarity_score) ==
    "Matches " \o query \o "; " \o product.name

\* a reason whose tiers include their lower bounds
ReasonOfMutInclusive(query, product, similarity_score) ==
    LET similarity ==
            IF similarity_score >= 90 THEN <<"Highly similar to your search">>
            ELSE IF similarity_score >= 80 THEN <<"Very similar to your search">>
            ELSE IF similarity_score >= 70 THEN <<"Similar to your search">>
            ELSE <<>>
        category ==
            IF Get(product, "category", "") # ""
            THEN <<"Popular in " \o product.category \o " category">> ELSE <<>>
        price == Get(product, "price", 0)
        pricing ==
            IF price >= 1000 THEN <<"Premium quality">>
            ELSE IF price <= 200 THEN <<"Great value">>
            ELSE <<>>
        reasons == similarity \o category \o pricing
    IN  IF reasons # <<>> THEN Join(reasons, "; ") ELSE "Recommended for you"

\* RecommendationService._get_recommendation_reason
ReasonOf(query, product, similarity_score) ==
    LET similarity ==
            IF similarity_score > 90 THEN <<"Highly similar to your search">>
            ELSE IF similarity_score > 80 THEN <<"Very similar to your search">>
            ELSE IF similarity_score > 70 THEN <<"Similar to your search">>
            ELSE <<>>
        category ==
            IF Get(product, "category", "") # ""
            THEN <<"Popular in " \o product.category \o " category">> ELSE <<>>
        price == Get(product, "price", 0)
        pricing ==
            IF price > 1000 THEN <<"Premium quality">>
            ELSE IF price < 200 THEN <<"Great value">>
            ELSE <<>>
        reasons == similarity \o category \o pricing
    IN  IF reasons # <<>> THEN Join(reasons, "; ") ELSE "Recommended for you"

\* the similarity floor with the comparison dropped
PassesThresholdMutNone(product) == TRUE

\* `product['similarity_score'] >= settings.SIMILARITY_THRESHOLD`
PassesThreshold(product) == product.similarity_score >= SIMILARITY_THRESHOLD

\* get_recommendations asking the index for top_k candidates only
get_recommendationsMutNoOversample(exists, cat, bk, query, top_k, category_filter, price_min, price_max) ==
    LET k == ResolveTopK(top_k)
        filters == BuildFilters(category_filter, price_min, price_max)
        s == search_similar_products(exists, cat, bk, <<query>>, k, filters)
        passing == SelectSeqIdx(s.value,
                       [i \in 1..Len(s.value) |-> PassesThreshold(s.value[i])])
        filtered_products ==
            [i \in 1..Len(passing) |->
                WithKey(passing[i], "recommendation_reason",
                        ReasonOf(query, passing[i], passing[i].similarity_score))]
    IN  Asking(
        IF s.ok
        THEN Ok(SliceTo(SortDesc(filtered_products, "similarity_score"), k), s.calls)
        ELSE Raise(Wrap("Error getting recommendations", s.exc), s.calls),
        s.asked)

\* RecommendationService.get_recommendations
get_recommendations(exists, cat, bk, query, top_k, category_filter, price_min, price_max) ==
    LET k == ResolveTopK(top_k)
        filters == BuildFilters(category_filter, price_min, price_max)
        s == search_similar_products(exists, cat, bk, <<query>>, k * 2, filters)
        passing == SelectSeqIdx(s.value,
                       [i \in 1..Len(s.value) |-> PassesThreshold(s.value[i])])
        filtered_products ==
            [i \in 1..Len(passing) |->
                WithKey(passing[i], "recommendation_reason",
                        ReasonOf(query, passing[i], passing[i].similarity_score))]
    IN  Asking(
        IF s.ok
        THEN Ok(SliceTo(SortDesc(filtered_products, "similarity_score"), k), s.calls)
        ELSE Raise(Wrap("Error getting recommendations", s.exc), s.calls),
        s.asked)

\* the list comprehension that drops the reference product, dropping nothing
ExcludeSelfMutKeep(products, product_id) == products

\* [p for p in similar_products if p['id'] != product_id]
ExcludeSelf(products, product_id) ==
    SelectSeqIdx(products,
                 [i \in 1..Len(products) |-> products[i].id # product_id])

\* the query text built from the target product (line 76)
SimilarQuery(target) ==
    <<target.name, target.category, Get(target, "description", "")>>

\* get_similar_products from the search on: s is the outcome of
\* search_similar_products for SimilarQuery(target)
SimilarResult(target, s, product_id, k, exclude_self) ==
    LET kept == IF exclude_self THEN ExcludeSelf(s.value, product_id) ELSE s.value
        explained == [i \in 1..Len(kept) |->
                        WithKey(kept[i], "recommendation_reason",
                                "Similar to " \o target.name)]
    IN  IF ~s.ok
        THEN Raise(Wrap("Error getting similar products", s.exc), s.calls)
        ELSE Ok(SliceTo(explained, k), s.calls)

\* get_similar_products when the target was not fetched: t is the outcome of
\* get_product_by_id
SimilarNoTarget(t, product_id) ==
    IF ~t.ok
    THEN Raise(Wrap("Error getting similar products", t.exc), t.calls)
    ELSE Raise(Wrap("Error getting similar products",
                    [type |-> "ValueError",
                     msg |-> "Product with ID " \o product_id \o " not found"]),
               t.calls)

\* similar products found with a search for top_k matches, not top_k + 1
get_similar_productsMutNoExtra(exists, cat, bk, product_id, top_k, exclude_self) ==
    LET k == ResolveTopK(top_k)
        t == get_product_by_id(exists, cat, bk, product_id)
        target == t.value[1]
        s == search_similar_products(ExistsAfter(exists, t.calls), cat, bk,
                                     SimilarQuery(target), k, <<>>)
        r == SimilarResult(target, s, product_id, k, exclude_self)
    IN  IF ~t.ok \/ t.value = None
        THEN Asking(SimilarNoTarget(t, product_id), <<>>)
        ELSE Asking([r EXCEPT !.calls = t.calls \o s.calls], s.asked)

\* RecommendationService.get_similar_products
get_similar_products(exists, cat, bk, product_id, top_k, exclude_self) ==
    LET k == ResolveTopK(top_k)
        t == get_product_by_id(exists, cat, bk, product_id)
        target == t.value[1]
        s == search_similar_products(ExistsAfter(exists, t.calls), cat, bk,
                                     SimilarQuery(target),
                                     IF exclude_self THEN k + 1 ELSE k, <<>>)
        r == SimilarResult(target, s, product_id, k, exclude_self)
    IN  IF ~t.ok \/ t.value = None
        THEN Asking(SimilarNoTarget(t, product_id), <<>>)
        ELSE Asking([r EXCEPT !.calls = t.calls \o s.calls], s.asked)

\* category recommendations with the similarity floor applied
get_category_recommendationsMutFloor(exists, cat, bk, category, top_k, price_min, price_max) ==
    LET k == ResolveTopK(top_k)
        filters == Merge([category |-> [x \in {"$eq"} |-> category]],
                         IF price_min # None \/ price_max # None
                         THEN [price |-> PriceFilter(price_min, price_max)]
                         ELSE <<>>)
        s == search_similar_products(exists, cat, bk, <<category>>, k, filters)
        passing == SelectSeqIdx(s.value,
                       [i \in 1..Len(s.value) |-> PassesThreshold(s.value[i])])
    IN  Asking(
        IF s.ok
        THEN Ok([i \in 1..Len(passing) |->
                    WithKey(passing[i], "recommendation_reason",
                            "Popular in " \o category \o " category")],
                s.calls)
        ELSE Raise(Wrap("Error getting category recommendations", s.exc), s.calls),
        s.asked)

\* RecommendationService.get_category_recommendations
get_category_recommendations(exists, cat, bk, category, top_k, price_min, price_max) ==
    LET k == ResolveTopK(top_k)
        filters == Merge([category |-> [x \in {"$eq"} |-> category]],
                         IF price_min # None \/ price_max # None
                         THEN [price |-> PriceFilter(price_min, price_max)]
                         ELSE <<>>)
        s == search_similar_products(exists, cat, bk, <<category>>, k, filters)
    IN  Asking(
        IF s.ok
        THEN Ok([i \in 1..Len(s.value) |->
                    WithKey(s.value[i], "recommendation_reason",
                            "Popular in " \o category \o " category")],
                s.calls)
        ELSE Raise(Wrap("Error getting category recommendations", s.exc), s.calls),
        s.asked)

TRENDING_SCAN_LIMIT == 100
TRENDING_SCORE == 90

\* sorted(all_products, key=price, reverse=True) sorting by ascending price
TrendingOrderMutAsc(all_products) ==
    LET decorated == [i \in 1..Len(all_products) |->
                        [key |-> Get(all_products[i], "price", 0),
                         item |-> all_products[i]]]
        sorted == SortDescMutAsc(decorated, "key")
    IN  [i \in 1..Len(sorted) |-> sorted[i].item]

\* sorted(all_products, key=lambda x: x.get('price', 0), reverse=True)
TrendingOrder(all_products) ==
    LET decorated == [i \in 1..Len(all_products) |->
                        [key |-> Get(all_products[i], "price", 0),
                         item |-> all_products[i]]]
        sorted == SortDesc(decorated, "key")
    IN  [i \in 1..Len(sorted) |-> sorted[i].item]

\* trending products cut to top_k before they are sorted
get_trending_productsMutCutFirst(exists, cat, bk, top_k) ==
    LET k == ResolveTopK(top_k)
        a == get_all_products(exists, cat, bk, TRENDING_SCAN_LIMIT, 0)
        trending_products == TrendingOrder(SliceTo(a.value, k))
    IN  Asking(
        IF a.ok
        THEN Ok([i \in 1..Len(trending_products) |->
                    WithKey(WithKey(trending_products[i], "recommendation_reason",
                                    "Trending product"),
                            "similarity_score", TRENDING_SCORE)],
                a.calls)
        ELSE Raise(Wrap("Error getting trending products", a.exc), a.calls),
        a.asked)

\* RecommendationService.get_trending_products
get_trending_products(exists, cat, bk, top_k) ==
    LET k == ResolveTopK(top_k)
        a == get_all_products(exists, cat, bk, TRENDING_SCAN_LIMIT, 0)
        trending_products == SliceTo(TrendingOrder(a.value), k)
    IN  Asking(
        IF a.ok
        THEN Ok([i \in 1..Len(trending_products) |->
                    WithKey(WithKey(trending_products[i], "recommendation_reason",
                                    "Trending product"),
                            "similarity_score", TRENDING_SCORE)],
                a.calls)
        ELSE Raise(Wrap("Error getting trending products", a.exc), a.calls),
        a.asked)

(***************************************************************************)
(* AnalyticsService.                                                       *)
(***************************************************************************)
ANALYTICS_SCAN_LIMIT == 1000
BUDGET_BELOW == 200
PREMIUM_FROM == 800

SeqMin(s) == CHOOSE x \in {s[i] : i \in 1..Len(s)} : \A i \in 1..Len(s) : x <= s[i]
SeqMax(s) == CHOOSE x \in {s[i] : i \in 1..Len(s)} : \A i \in 1..Len(s) : x >= s[i]

\* len([x for x in s if keep])
CountIf(keep) == Cardinality({i \in DOMAIN keep : keep[i]})

\* a mid_range bucket that leaves out the price 200
MidRangeMutOpen(p) == BUDGET_BELOW < p /\ p < PREMIUM_FROM

\* `200 <= p < 800`
MidRange(p) == BUDGET_BELOW <= p /\ p < PREMIUM_FROM

\* [product.get('price', 0) for product in products if product.get('price')]
PricesOf(products) ==
    LET priced == SelectSeqIdx(products,
                     [i \in 1..Len(products) |-> Get(products[i], "price", 0) # 0])
    IN  [i \in 1..Len(priced) |-> Get(priced[i], "price", 0)]

\* the price_ranges dict
PriceRanges(prices) ==
    [budget |-> CountIf([i \in 1..Len(prices) |-> prices[i] < BUDGET_BELOW]),
     mid_range |-> CountIf([i \in 1..Len(prices) |-> MidRange(prices[i])]),
     premium |-> CountIf([i \in 1..Len(prices) |-> prices[i] >= PREMIUM_FROM])]

\* the categories dict: category -> count, absent category counted as 'Unknown'
CategoryCounts(all_products) ==
    LET keys == {Get(all_products[i], "category", "Unknown") :
                    i \in 1..Len(all_products)}
    IN  [c \in keys |->
            CountIf([i \in 1..Len(all_products) |->
                        Get(all_products[i], "category", "Unknown") = c])]

\* the category_insights dict (count and price_range; the float-valued
\* percentage and avg_price are left out)
CategoryInsights(all_products, categories) ==
    [c \in DOMAIN categories |->
        LET category_products ==
                SelectSeqIdx(all_products,
                    [i \in 1..Len(all_products) |->
                        "category" \in DOMAIN all_products[i]
                        /\ all_products[i].category = c])
            category_prices == PricesOf(category_products)
        IN  [count |-> categories[c],
             price_range |->
                [min |-> IF category_prices # <<>> THEN SeqMin(category_prices) ELSE 0,
                 max |-> IF category_prices # <<>> THEN SeqMax(category_prices) ELSE 0]]]

\* metrics whose total counts the priced products only
get_analytics_metricsMutPricedTotal(exists, cat, bk) ==
    LET a == get_all_products(exists, cat, bk, ANALYTICS_SCAN_LIMIT, 0)
        all_products == a.value
        categories == CategoryCounts(all_products)
        prices == PricesOf(all_products)
    IN  IF ~a.ok
        THEN Raise(Wrap("Error getting analytics metrics", a.exc), a.calls)
        ELSE Ok([total_products |-> Len(prices),
                 categories |-> categories,
                 price_ranges |-> PriceRanges(prices)],
                a.calls)

\* AnalyticsService.get_analytics_metrics (mean, median and std of
\* price_statistics are floats and are left out)
get_analytics_metrics(exists, cat, bk) ==
    LET a == get_all_products(exists, cat, bk, ANALYTICS_SCAN_LIMIT, 0)
        all_products == a.value
        categories == CategoryCounts(all_products)
        prices == PricesOf(all_products)
    IN  IF ~a.ok
        THEN Raise(Wrap("Error getting analytics metrics", a.exc), a.calls)
        ELSE IF all_products = <<>>
        THEN Ok([total_products |-> 0, categories |-> <<>>,
                 price_statistics |-> <<>>, recommendation_insights |-> <<>>],
                a.calls)
        ELSE Ok([total_products |-> Len(all_products),
                 categories |-> categories,
                 category_insights |-> CategoryInsights(all_products, categories),
                 price_statistics |->
                    [min |-> IF prices # <<>> THEN SeqMin(prices) ELSE 0,
                     max |-> IF prices # <<>> THEN SeqMax(prices) ELSE 0],
                 price_ranges |-> PriceRanges(prices),
                 recommendation_insights |->
                    [total_recommendations_generated |-> 0,
                     most_recommended_categories |-> <<>>]],
                a.calls)

\* the sample queries of get_recommendation_quality_metrics
test_queries ==
    <<"modern sofa", "office chair", "dining table", "bedroom furniture",
      "storage solutions">>

QUALITY_TOP_K == 5

\* RecommendationService.analyze_recommendation_quality for a non-empty
\* list (the float-valued means and the price_range are left out)
analyze_recommendation_quality(recommendations) ==
    LET similarities == [i \in 1..Len(recommendations) |->
                            recommendations[i].similarity_score]
    IN  [total_recommendations |-> Len(recommendations),
         max_similarity |-> SeqMax(similarities),
         min_similarity |-> SeqMin(similarities),
         category_diversity |->
            Cardinality({Get(recommendations[i], "category", "") :
                            i \in 1..Len(recommendations)})]

\* one pass of the loop over test_queries: the outcome o of
\* get_recommendations for sample query number i
SampleRun(i, o) ==
    [query |-> test_queries[i], ok |-> o.ok,
     value |-> IF o.ok THEN o.value ELSE <<>>, calls |-> o.calls]

\* the passes of the loop, in order; the index is down during the queries
\* numbered in `failing`, and after the first query the index exists
\* (get_or_create_index comes before the query that fails)
SampleRuns(exists, cat, failing) ==
    [i \in DOMAIN test_queries |->
        SampleRun(i, get_recommendations(exists \/ i > 1, cat,
                         IF i \in failing THEN "query_down" ELSE "up",
                         test_queries[i], Some(QUALITY_TOP_K), None, None, None))]

\* the external calls of the runs, in order
RECURSIVE CallsOf(_)
CallsOf(runs) ==
    IF runs = <<>> THEN <<>> ELSE runs[1].calls \o CallsOf(Tail(runs))

\* the snapshot built from the passes: an entry for every query that
\* returned a non-empty list (overall_quality is made of floats and is left
\* out)
QualitySnapshot(runs) ==
    LET counted == SelectSeqIdx(runs,
                      [i \in 1..Len(runs) |-> runs[i].ok /\ runs[i].value # <<>>])
    IN  [test_queries |-> Len(test_queries),
         successful_queries |-> Len(counted),
         quality_metrics |->
            [i \in 1..Len(counted) |->
                [query |-> counted[i].query,
                 quality_analysis |->
                    analyze_recommendation_quality(counted[i].value)]]]

\* AnalyticsService.get_recommendation_quality_metrics
get_recommendation_quality_metrics(exists, cat, failing) ==
    Ok(QualitySnapshot(SampleRuns(exists, cat, failing)),
       CallsOf(SampleRuns(exists, cat, failing)))

(***************************************************************************)
(* routers/analytics.py: the /metrics route.                               *)
(***************************************************************************)
\* the fields of AnalyticsMetricsResponse, none of which has a default
AnalyticsMetricsResponseFields ==
    {"total_products", "categories", "category_insights", "price_statistics",
     "price_ranges", "recommendation_insights"}

(***************************************************************************)
(* routers/products.py: the routes, as far as their status codes go.       *)
(***************************************************************************)
HTTP_OK == 200
HTTP_NOT_FOUND == 404
HTTP_UNPROCESSABLE == 422
HTTP_SERVICE_ERROR == 500
SIMILAR_TOP_K_MAX == 20

Response(status, o) == [status |-> status, outcome |-> o]

\* GET /{product_id}
route_get_product(exists, cat, bk, product_id) ==
    LET o == get_product_by_id(exists, cat, bk, product_id) IN
    IF ~o.ok THEN Response(HTTP_SERVICE_ERROR, o)
    ELSE IF o.value = None THEN Response(HTTP_NOT_FOUND, o)
    ELSE Response(HTTP_OK, o)

\* POST /recommend: RecommendationRequest carries top_k unvalidated
route_get_recommendations(exists, cat, bk, query, top_k, category_filter, price_min, price_max) ==
    LET o == get_recommendations(exists, cat, bk, query, top_k, category_filter,
                                 price_min, price_max)
    IN  Response(IF o.ok THEN HTTP_OK ELSE HTTP_SERVICE_ERROR, o)

\* GET /api/analytics/metrics: AnalyticsMetricsResponse(**metrics) raises a
\* validation error for a missing field, and the route answers every
\* exception with status 500
route_get_analytics_metrics(exists, cat, bk) ==
    LET o == get_analytics_metrics(exists, cat, bk) IN
    IF ~o.ok THEN Response(HTTP_SERVICE_ERROR, o)
    ELSE IF ~(AnalyticsMetricsResponseFields \subseteq DOMAIN o.value)
    THEN Response(HTTP_SERVICE_ERROR,
                  Raise([type |-> "ValidationError",
                         msg |-> "AnalyticsMetricsResponse"], o.calls))
    ELSE Response(HTTP_OK, o)

\* GET /{product_id}/similar: top_k: int = Query(5, ge=1, le=20)
route_get_similar_products(exists, cat, bk, product_id, top_k) ==
    IF top_k < 1 \/ top_k > SIMILAR_TOP_K_MAX
    THEN Response(HTTP_UNPROCESSABLE,
                  Raise([type |-> "RequestValidationError", msg |-> "top_k"], <<>>))
    ELSE LET o == get_similar_products(exists, cat, bk, product_id, Some(top_k), TRUE)
         IN  Response(IF o.ok THEN HTTP_OK ELSE HTTP_SERVICE_ERROR, o)

(***************************************************************************)
(* Requests and outcomes as kept in the state.                             *)
(***************************************************************************)
NoExc == [type |-> "", msg |-> ""]

NoReq ==
    [op |-> "", query |-> "", top_k |-> None, category |-> None,
     price_min |-> None, price_max |-> None, product_id |-> "",
     exclude_self |-> FALSE, products |-> <<>>, limit |-> 0, offset |-> 0,
     attempt |-> 1, failing |-> {}]

NoOut ==
    [ok |-> TRUE, value |-> <<>>, exc |-> NoExc, calls |-> <<>>, asked |-> <<>>,
     http |-> 0]

\* the outcome o of a service call (http = 0) or of a route
Outcome(o, http) ==
    [ok |-> o.ok, value |-> IF o.ok THEN o.value ELSE <<>>,
     exc |-> IF o.ok THEN NoExc ELSE o.exc, calls |-> o.calls,
     asked |-> Get(o, "asked", <<>>), http |-> http]

\* the request record of operation op
Request(op) == [NoReq EXCEPT !.op = op]

TopKValues == (-1..MaxTopK) \cup {DEFAULT_TOP_K}
TopKs == {None} \cup {Some(k) : k \in TopKValues}
CategoryFilters == {None, Some(""), Some("sofa")}
PriceMins == {None, Some(0), Some(200)}
PriceMaxs == {None, Some(800)}

\* product lists, as lists of row indexes
Batches == UNION {[1..n -> RowIds] : n \in 1..MaxBatch}

\* no engine call in flight
NoWorkers == <<>>

TypeOK ==
    /\ indexExists \in BOOLEAN
    /\ backend \in BackendStates
    /\ pc \in {"idle", "done", "blocked"}
    /\ \A i \in 1..Len(catalog) : catalog[i].id \in Ids
    /\ \A i, j \in 1..Len(catalog) : catalog[i].id = catalog[j].id => i = j

Init ==
    /\ indexExists = FALSE
    /\ catalog = <<>>
    /\ backend = "up"
    /\ pc = "idle"
    /\ req = NoReq
    /\ out = NoOut
    /\ products_data = <<>>
    /\ workers = NoWorkers

\* a read-only call returns outcome o (route status http)
Returns(r, o, http) ==
    /\ pc = "idle"
    /\ pc' = "done"
    /\ req' = r
    /\ out' = Outcome(o, http)
    /\ indexExists' = ExistsAfter(indexExists, o.calls)
    /\ UNCHANGED <<catalog, backend, products_data, workers>>

StoreProducts ==
    /\ pc = "idle"
    /\ \E batch \in Batches :
      \E o \in {store_products_in_pinecone(indexExists, catalog, backend,
                    [i \in 1..Len(batch) |-> AllRows[batch[i]]])} :
        /\ pc' = "done"
        /\ req' = [Request("store_products_in_pinecone") EXCEPT
                      !.products = [i \in 1..Len(batch) |-> AllRows[batch[i]]]]
        /\ out' = Outcome(o, 0)
        /\ indexExists' = ExistsAfter(indexExists, o.calls)
        /\ catalog' = o.catalog
        /\ UNCHANGED <<backend, products_data, workers>>

\* the same product list is stored again (a re-upload of the same file)
StoreProductsAgain ==
    /\ pc = "done"
    /\ req.op = "store_products_in_pinecone"
    /\ \E o \in {store_products_in_pinecone(indexExists, catalog, backend,
                                            req.products)} :
        /\ req' = [req EXCEPT !.attempt = 2]
        /\ out' = Outcome(o, 0)
        /\ indexExists' = ExistsAfter(indexExists, o.calls)
        /\ catalog' = o.catalog
        /\ UNCHANGED <<pc, backend, products_data, workers>>

GetRecommendations ==
    /\ pc = "idle"
    /\ \E query \in Queries, top_k \in TopKs, category_filter \in CategoryFilters,
       price_min \in PriceMins, price_max \in PriceMaxs :
      \E o \in {get_recommendations(indexExists, catalog, backend, query, top_k,
                                    category_filter, price_min, price_max)} :
        Returns([Request("get_recommendations") EXCEPT
                    !.query = query, !.top_k = top_k, !.category = category_filter,
                    !.price_min = price_min, !.price_max = price_max],
                o, 0)

GetSimilarProducts ==
    /\ pc = "idle"
    /\ \E product_id \in Ids, top_k \in TopKs, exclude_self \in BOOLEAN :
      \E o \in {get_similar_products(indexExists, catalog, backend, product_id,
                                     top_k, exclude_self)} :
        Returns([Request("get_similar_products") EXCEPT
                    !.product_id = product_id, !.top_k = top_k,
                    !.exclude_self = exclude_self],
                o, 0)

GetCategoryRecommendations ==
    /\ pc = "idle"
    /\ \E category \in Categories, top_k \in TopKs,
       price_min \in PriceMins, price_max \in PriceMaxs :
      \E o \in {get_category_recommendations(indexExists, catalog, backend,
                                             category, top_k, price_min, price_max)} :
        Returns([Request("get_category_recommendations") EXCEPT
                    !.category = Some(category), !.top_k = top_k,
                    !.price_min = price_min, !.price_max = price_max],
                o, 0)

GetTrendingProducts ==
    /\ pc = "idle"
    /\ \E top_k \in TopKs :
      \E o \in {get_trending_products(indexExists, catalog, backend, top_k)} :
        Returns([Request("get_trending_products") EXCEPT !.top_k = top_k], o, 0)

GetAllProducts ==
    /\ pc = "idle"
    /\ \E limit \in 1..MaxBatch, offset \in 0..MaxBatch :
      \E o \in {get_all_products(indexExists, catalog, backend, limit, offset)} :
        Returns([Request("get_all_products") EXCEPT
                    !.limit = limit, !.offset = offset],
                o, 0)

GetProductById ==
    /\ pc = "idle"
    /\ \E product_id \in Ids :
      \E r \in {route_get_product(indexExists, catalog, backend, product_id)} :
        Returns([Request("GET /{product_id}") EXCEPT !.product_id = product_id],
                r.outcome, r.status)

GetAnalyticsMetrics ==
    /\ pc = "idle"
    /\ \E o \in {get_analytics_metrics(indexExists, catalog, backend)} :
        Returns(Request("get_analytics_metrics"), o, 0)

RouteRecommend ==
    /\ pc = "idle"
    /\ \E query \in Queries, top_k \in TopKs :
      \E r \in {route_get_recommendations(indexExists, catalog, backend, query,
                                          top_k, None, None, None)} :
        Returns([Request("POST /recommend") EXCEPT !.query = query, !.top_k = top_k],
                r.outcome, r.status)

RouteSimilar ==
    /\ pc = "idle"
    /\ \E product_id \in Ids, top_k \in TopKValues :
      \E r \in {route_get_similar_products(indexExists, catalog, backend,
                                           product_id, top_k)} :
        Returns([Request("GET /{product_id}/similar") EXCEPT
                    !.product_id = product_id, !.top_k = Some(top_k),
                    !.exclude_self = TRUE],
                r.outcome, r.status)

\* the external calls an engine operation starts with (for
\* get_similar_products: those of get_product_by_id)
EngineSteps(op, exists) ==
    IndexSteps(exists) \o
    (CASE op \in {"get_recommendations", "get_category_recommendations"} ->
             <<"encode", "query">>
       [] op = "get_trending_products" -> <<"query">>
       [] op = "get_similar_products" -> <<"fetch">>)

\* An external call of an engine operation never answers.  The calls are
\* made with no timeout argument, and neither the Pinecone client nor the
\* settings carry one, so the operation waits in that call: no step of the
\* program leaves "blocked".
ExternalCallHangs ==
    /\ pc = "idle"
    /\ backend = "up"
    /\ \E op \in {"get_recommendations", "get_similar_products",
                  "get_category_recommendations", "get_trending_products"} :
      \E h \in 1..Len(EngineSteps(op, indexExists)) :
        /\ pc' = "blocked"
        /\ req' = Request(op)
        /\ out' = [NoOut EXCEPT
                      !.calls = SubSeq(EngineSteps(op, indexExists), 1, h)]
        /\ indexExists' =
              ExistsAfter(indexExists, SubSeq(EngineSteps(op, indexExists), 1, h - 1))
        /\ UNCHANGED <<catalog, backend, products_data, workers>>

\* the response is delivered; the next request may come
Return ==
    /\ pc = "done"
    /\ pc' = "idle"
    /\ req' = NoReq
    /\ out' = NoOut
    /\ UNCHANGED <<indexExists, catalog, backend, products_data, workers>>

\* an external collaborator goes down or comes back
BackendChange ==
    \E b \in BackendStates \ {backend} :
        /\ pc = "idle"
        /\ backend' = b
        /\ UNCHANGED <<indexExists, catalog, pc, req, out, products_data, workers>>

Next ==
    \/ StoreProducts
    \/ StoreProductsAgain
    \/ GetRecommendations
    \/ GetSimilarProducts
    \/ GetCategoryRecommendations
    \/ GetTrendingProducts
    \/ GetAllProducts
    \/ GetProductById
    \/ GetAnalyticsMetrics
    \/ RouteRecommend
    \/ RouteSimilar
    \/ ExternalCallHangs
    \/ Return
    \/ BackendChange

Spec == Init /\ [][Next]_vars

\* The server keeps running: a response that can be delivered is delivered.
LiveSpec == Spec /\ WF_vars(Return)

(***************************************************************************)
(* Concurrent engine calls.  Each request runs one engine method; the      *)
(* methods interleave at their external calls (list_indexes, create_index, *)
(* fetch, query; encode is local and goes with the query that follows it). *)
(* A method's local variables are the worker's fields; the index and the   *)
(* service instance are shared.                                            *)
(***************************************************************************)
Workers == {1, 2}

WorkerIdle ==
    [pc |-> "idle", req |-> NoReq, warm |-> FALSE, target |-> <<>>,
     calls |-> <<>>, out |-> NoOut]

ConcTopKs == {None, Some(1)}

\* the requests the concurrent callers draw from
ConcRequests ==
    {[Request("get_recommendations") EXCEPT !.query = q, !.top_k = k] :
        q \in Queries, k \in ConcTopKs}
    \cup {[Request("get_similar_products") EXCEPT
              !.product_id = id, !.top_k = k, !.exclude_self = x] :
            id \in Ids, k \in ConcTopKs, x \in BOOLEAN}
    \cup {[Request("get_category_recommendations") EXCEPT
              !.category = Some(c), !.top_k = k] :
            c \in Categories, k \in ConcTopKs}
    \cup {[Request("get_trending_products") EXCEPT !.top_k = k] : k \in ConcTopKs}

\* the engine method's `except` prefix, and that of the ProductService
\* method in which the worker's current get_or_create_index runs
OuterPrefix(op) ==
    CASE op = "get_recommendations" -> "Error getting recommendations"
      [] op = "get_similar_products" -> "Error getting similar products"
      [] op = "get_category_recommendations" ->
            "Error getting category recommendations"
      [] op = "get_trending_products" -> "Error getting trending products"

InnerPrefix(op, at) ==
    IF op = "get_trending_products" THEN "Error getting all products"
    ELSE IF op = "get_similar_products" /\ at \in {"list", "create"}
    THEN "Error getting product by ID"
    ELSE "Error searching similar products"

\* where a method goes on once get_or_create_index has returned
AfterIndex(op, at) ==
    IF op = "get_similar_products" /\ at \in {"list", "create"}
    THEN "fetch" ELSE "query"

\* what an engine call leaves in the fields of the service instances, a
\* call that caches its result there
InstanceAfterMutCache(fields, o) == IF o.ok THEN o.value ELSE fields

\* what an engine call leaves in the fields of the service instances: no
\* engine method assigns to a field of self
InstanceAfter(fields, o) == fields

\* the method of request r from its index query on, on an existing index
QueryResult(r, target, cat, bk) ==
    CASE r.op = "get_recommendations" ->
            get_recommendations(TRUE, cat, bk, r.query, r.top_k, r.category,
                                r.price_min, r.price_max)
      [] r.op = "get_category_recommendations" ->
            get_category_recommendations(TRUE, cat, bk, r.category[1], r.top_k,
                                         r.price_min, r.price_max)
      [] r.op = "get_trending_products" ->
            get_trending_products(TRUE, cat, bk, r.top_k)
      [] r.op = "get_similar_products" ->
            SimilarResult(target,
                search_similar_products(TRUE, cat, bk, SimilarQuery(target),
                    IF r.exclude_self THEN ResolveTopK(r.top_k) + 1
                    ELSE ResolveTopK(r.top_k), <<>>),
                r.product_id, ResolveTopK(r.top_k), r.exclude_self)

\* the state after construction or after a dataset of n rows was uploaded
InitConc ==
    /\ \E n \in {0} \cup RowIds :
        /\ products_data = [i \in 1..n |-> AllRows[i]]
        /\ catalog = IndexUpsert(<<>>, [i \in 1..n |-> VectorOf(AllRows[i])])
        /\ indexExists \in (IF n = 0 THEN BOOLEAN ELSE {TRUE})
    /\ backend = "up"
    /\ pc = "idle"
    /\ req = NoReq
    /\ out = NoOut
    /\ workers = [w \in Workers |-> WorkerIdle]

\* a request arrives and its engine method starts
Begin(w) ==
    /\ workers[w].pc = "idle"
    /\ \E r \in ConcRequests :
        workers' = [workers EXCEPT
                       ![w] = [WorkerIdle EXCEPT
                                  !.pc = "list", !.req = r, !.warm = indexExists]]
    /\ UNCHANGED <<indexExists, catalog, backend, pc, req, out, products_data>>

\* get_or_create_index: index_list = self.pc.list_indexes().names()
ListIndexes(w) ==
    /\ workers[w].pc \in {"list", "list2"}
    /\ workers' = [workers EXCEPT
          ![w].calls = Append(@, "list_indexes"),
          ![w].pc = IF indexExists THEN AfterIndex(workers[w].req.op, @)
                    ELSE IF @ = "list" THEN "create" ELSE "create2"]
    /\ UNCHANGED <<indexExists, catalog, backend, pc, req, out, products_data>>

\* get_or_create_index: self.pc.create_index(...); the backend refuses to
\* create an index whose name is taken
CreateIndex(w) ==
    /\ workers[w].pc \in {"create", "create2"}
    /\ IF indexExists
       THEN /\ workers' = [workers EXCEPT
                  ![w].calls = Append(@, "create_index"),
                  ![w].pc = "done",
                  ![w].out = Outcome(
                      Raise(Wrap(OuterPrefix(workers[w].req.op),
                                 Wrap(InnerPrefix(workers[w].req.op, workers[w].pc),
                                      LibraryError("create_index"))),
                            Append(workers[w].calls, "create_index")), 0)]
            /\ UNCHANGED indexExists
       ELSE /\ workers' = [workers EXCEPT
                  ![w].calls = Append(@, "create_index"),
                  ![w].pc = AfterIndex(workers[w].req.op, @)]
            /\ indexExists' = TRUE
    /\ UNCHANGED <<catalog, backend, pc, req, out, products_data>>

\* get_similar_products: target_product = get_product_by_id(product_id)
Fetch(w) ==
    /\ workers[w].pc = "fetch"
    /\ \E t \in {get_product_by_id(TRUE, catalog, backend,
                                    workers[w].req.product_id)} :
        workers' = [workers EXCEPT
          ![w].calls = Append(@, "fetch"),
          ![w].pc = IF t.ok /\ t.value # None THEN "list2" ELSE "done",
          ![w].target = IF t.ok /\ t.value # None THEN t.value[1] ELSE <<>>,
          ![w].out = IF t.ok /\ t.value # None THEN NoOut
                     ELSE Outcome(SimilarNoTarget(t, workers[w].req.product_id), 0)]
    /\ UNCHANGED <<indexExists, catalog, backend, pc, req, out, products_data>>

\* the index query and the rest of the method
Query(w) ==
    /\ workers[w].pc = "query"
    /\ \E o \in {QueryResult(workers[w].req, workers[w].target, catalog, backend)} :
        /\ workers' = [workers EXCEPT
              ![w].calls = Append(@, "query"),
              ![w].pc = "done",
              ![w].out = Outcome(o, 0)]
        /\ products_data' = InstanceAfter(products_data, o)
    /\ UNCHANGED <<indexExists, catalog, backend, pc, req, out>>

\* the response is delivered
Collect(w) ==
    /\ workers[w].pc = "done"
    /\ workers' = [workers EXCEPT ![w] = WorkerIdle]
    /\ UNCHANGED <<indexExists, catalog, backend, pc, req, out, products_data>>

NextConc ==
    \E w \in Workers :
        \/ Begin(w)
        \/ ListIndexes(w)
        \/ CreateIndex(w)
        \/ Fetch(w)
        \/ Query(w)
        \/ Collect(w)

ConcSpec == InitConc /\ [][NextConc]_vars
(***************************************************************************)
(* _get_recommendation_reason on its own: the arguments are drawn at the   *)
(* start, the method is applied to them.                                   *)
(***************************************************************************)
\* similarity scores around the tier borders 0.7, 0.8, 0.9
ReasonScores == {10, 69, 70, 71, 79, 80, 81, 89, 90, 91, 100}
\* the 'category' entry of the product: missing, empty or a name
ReasonCategories == {None, Some(""), Some("Chairs")}
\* the 'price' entry of the product: missing, or around the borders 200, 1000
ReasonPrices ==
    {None} \cup {Some(p) : p \in {0, 199, 200, 201, 999, 1000, 1001, 1500}}

\* the product dict with the entries that are given
ReasonProduct(category, price) ==
    Merge([id |-> "a", name |-> "Oak Chair"],
          Merge(IF category # None THEN [category |-> category[1]] ELSE <<>>,
                IF price # None THEN [price |-> price[1]] ELSE <<>>))

InitReason ==
    /\ indexExists = FALSE
    /\ catalog = <<>>
    /\ backend = "up"
    /\ pc = "idle"
    /\ out = NoOut
    /\ products_data = <<>>
    /\ workers = NoWorkers
    /\ \E query \in Queries, similarity_score \in ReasonScores,
          category \in ReasonCategories, price \in ReasonPrices :
        req = [op |-> "_get_recommendation_reason", query |-> query,
               similarity_score |-> similarity_score,
               category |-> category, price |-> price]

GetRecommendationReason ==
    /\ pc = "idle"
    /\ req.op = "_get_recommendation_reason"
    /\ pc' = "done"
    /\ out' = [NoOut EXCEPT
                  !.value = ReasonOf(req.query,
                                     ReasonProduct(req.category, req.price),
                                     req.similarity_score)]
    /\ UNCHANGED <<indexExists, catalog, backend, req, products_data, workers>>

NextReason == GetRecommendationReason

ReasonSpec == InitReason /\ [][NextReason]_vars

(***************************************************************************)
(* get_similar_products on stored catalogs.  The catalog is what uploads   *)
(* of up to three of the rows below leave behind; three of the rows carry  *)
(* the same title and a category with the same embedding, under three ids. *)
(***************************************************************************)
StoredRows == {1, 2, 6, 9}

MaxStored == 3

InitStored ==
    /\ \E n \in 1..MaxStored :
        \E b \in [1..n -> StoredRows] :
            catalog = IndexUpsert(<<>>, [i \in 1..n |-> VectorOf(AllRows[b[i]])])
    /\ indexExists = TRUE
    /\ backend = "up"
    /\ pc = "idle"
    /\ req = NoReq
    /\ out = NoOut
    /\ products_data = <<>>
    /\ workers = NoWorkers

NextStored == GetSimilarProducts \/ Return

StoredSpec == InitStored /\ [][NextStored]_vars

(***************************************************************************)
(* Analytics reads on any index contents.  The index is external: a record *)
(* carries the metadata it was written with, with or without a category    *)
(* and a price.  The analytics methods read the records with               *)
(* .get('category', 'Unknown') and .get('price', 0).                       *)
(***************************************************************************)
MaxRecords == 2

RecordIds == <<"a", "b", "c">>
RecordDirs == {0, 6}
RecordCategories == {None, Some("Chairs"), Some("Unknown")}
RecordPrices == {None, Some(0), Some(150), Some(900)}

\* the metadata of a record with the optional category and price
RecordMetadata(category, price) ==
    Merge(Merge([name |-> "Item"],
                IF category = None THEN <<>> ELSE [category |-> category[1]]),
          IF price = None THEN <<>> ELSE [price |-> price[1]])

\* the sets of sample queries during which the index is down: none, one
\* query, or all of them
SampleFailures ==
    {{}, DOMAIN test_queries} \cup {{i} : i \in DOMAIN test_queries}

InitIndex ==
    /\ \E n \in 0..MaxRecords :
        /\ \E vs \in [1..n -> RecordDirs], cs \in [1..n -> RecordCategories],
              ps \in [1..n -> RecordPrices] :
            catalog = [i \in 1..n |->
                          [id |-> RecordIds[i], values |-> vs[i],
                           metadata |-> RecordMetadata(cs[i], ps[i])]]
        /\ indexExists \in (IF n = 0 THEN BOOLEAN ELSE {TRUE})
    /\ backend = "up"
    /\ pc = "idle"
    /\ req = NoReq
    /\ out = NoOut
    /\ products_data = <<>>
    /\ workers = NoWorkers

RouteMetrics ==
    /\ pc = "idle"
    /\ \E r \in {route_get_analytics_metrics(indexExists, catalog, backend)} :
        Returns(Request("GET /metrics"), r.outcome, r.status)

GetRecommendationQualityMetrics ==
    /\ pc = "idle"
    /\ \E failing \in SampleFailures :
      \E o \in {get_recommendation_quality_metrics(indexExists, catalog, failing)} :
        Returns([Request("get_recommendation_quality_metrics") EXCEPT
                    !.failing = failing],
                o, 0)

NextIndex ==
    \/ GetAnalyticsMetrics
    \/ RouteMetrics
    \/ GetRecommendationQualityMetrics
    \/ Return

IndexSpec == InitIndex /\ [][NextIndex]_vars

(***************************************************************************)
(* routers/products.py: which handler a request reaches.  A path is the    *)
(* tuple of its segments after the prefix /api/products; a route pattern   *)
(* is a tuple of <<"lit", text>> and <<"param", name>> segments.  Routes   *)
(* are tried in declaration order: the first route whose path and method   *)
(* match handles the request; if only paths match, the answer is 405; if   *)
(* nothing matches, 404.                                                   *)
(***************************************************************************)
Lit(text) == <<"lit", text>>
Param(name) == <<"param", name>>

Route(method, pattern, handler) ==
    [method |-> method, pattern |-> pattern, handler |-> handler]

\* the routes of the products router, in declaration order
routes ==
    << Route("POST", <<Lit("upload")>>, "upload_dataset"),
       Route("GET", <<Lit("all")>>, "get_all_products"),
       Route("GET", <<Param("product_id")>>, "get_product"),
       Route("POST", <<Lit("recommend")>>, "get_recommendations"),
       Route("GET", <<Param("product_id"), Lit("similar")>>, "get_similar_products"),
       Route("GET", <<Lit("category"), Param("category")>>, "get_category_products"),
       Route("GET", <<Lit("trending")>>, "get_trending_products"),
       Route("POST", <<Lit("generate-description")>>, "generate_product_description"),
       Route("GET", <<Lit("embeddings")>>, "get_embeddings_for_analytics") >>

\* a path parameter matches any one segment
PathMatches(pattern, path) ==
    /\ Len(pattern) = Len(path)
    /\ \A i \in 1..Len(pattern) :
          pattern[i][1] = "param" \/ pattern[i][2] = path[i]

\* the handler that serves the request, or the error answered
dispatch(method, path) ==
    LET partial == {i \in 1..Len(routes) : PathMatches(routes[i].pattern, path)}
        full == {i \in partial : routes[i].method = method}
    IN  IF full # {}
        THEN routes[CHOOSE i \in full : \A j \in full : i <= j].handler
        ELSE IF partial # {} THEN "405 Method Not Allowed"
        ELSE "404 Not Found"

Methods == {"GET", "POST"}

Segments ==
    {"upload", "all", "recommend", "similar", "category", "trending",
     "generate-description", "embeddings", "a", "Chairs"}

MaxSegments == 2

InitRoute ==
    /\ indexExists = FALSE
    /\ catalog = <<>>
    /\ backend = "up"
    /\ pc = "idle"
    /\ out = NoOut
    /\ products_data = <<>>
    /\ workers = NoWorkers
    /\ \E method \in Methods, n \in 1..MaxSegments :
        \E path \in [1..n -> Segments] :
            req = [op |-> "dispatch", method |-> method, path |-> path]

Dispatch ==
    /\ pc = "idle"
    /\ req.op = "dispatch"
    /\ pc' = "done"
    /\ out' = [NoOut EXCEPT !.value = dispatch(req.method, req.path)]
    /\ UNCHANGED <<indexExists, catalog, backend, req, products_data, workers>>

NextRoute == Dispatch

RouteSpec == InitRoute /\ [][NextRoute]_vars

(***************************************************************************)
(* Properties.                                                             *)
(***************************************************************************)
Done(op) == pc = "done" /\ req.op = op

\* the ids of a list of product dicts
IdsOf(products) == [i \in 1..Len(products) |-> products[i].id]

\* top_k is unset or not negative
TopKNotNegative == req.top_k = None \/ req.top_k[1] >= 0

RecommendOps == {"get_recommendations", "POST /recommend"}
SimilarOps == {"get_similar_products", "GET /{product_id}/similar"}

\* C1: every item get_recommendations returns has similarity_score >=
\* SIMILARITY_THRESHOLD, and the list is in non-increasing order of
\* similarity_score.
C1_ThresholdAndOrder ==
    (pc = "done" /\ req.op \in RecommendOps /\ out.ok) =>
        /\ \A i \in 1..Len(out.value) :
              out.value[i].similarity_score >= SIMILARITY_THRESHOLD
        /\ \A i, j \in 1..Len(out.value) :
              i < j => out.value[i].similarity_score >= out.value[j].similarity_score

\* a three-product catalog queried without filters and with the default
\* top_k, where one product is under the floor and the two returned differ
\* in score
C1_Witness ==
    /\ Done("get_recommendations") /\ out.ok
    /\ req.top_k = None /\ req.category = None
    /\ req.price_min = None /\ req.price_max = None
    /\ Len(catalog) = 3 /\ Len(out.value) = 2
    /\ out.value[1].similarity_score > out.value[2].similarity_score
    /\ \E i \in 1..3 :
          Cosine(Encode(<<req.query>>), catalog[i].values) < SIMILARITY_THRESHOLD

\* C2: get_similar_products with exclude_self never returns the reference
\* product.
C2_ExcludesSelf ==
    (pc = "done" /\ req.op \in SimilarOps /\ req.exclude_self /\ out.ok) =>
        \A i \in 1..Len(out.value) : out.value[i].id # req.product_id

\* the reference product is stored with others, and the index was asked for
\* enough neighbours to return all of them, the reference included
C2_Witness ==
    /\ Done("get_similar_products") /\ req.exclude_self /\ out.ok
    /\ req.top_k = None
    /\ Position(catalog, req.product_id) # 0
    /\ Len(catalog) = 3 /\ Len(out.value) = 2

\* C3: get_category_recommendations returns only items whose category is
\* exactly the requested string.
C3_ExactCategory ==
    (Done("get_category_recommendations") /\ out.ok) =>
        \A i \in 1..Len(out.value) : out.value[i].category = req.category[1]

\* the catalog holds a product of the requested category and one whose
\* category differs from it only by case
C3_Witness ==
    /\ Done("get_category_recommendations") /\ out.ok
    /\ Len(out.value) >= 1
    /\ \E i \in 1..Len(catalog) :
          /\ catalog[i].metadata.category # req.category[1]
          /\ LowerStr(catalog[i].metadata.category) = LowerStr(req.category[1])

\* C4: the reason attached by get_recommendations depends on (score,
\* category, price) alone: any other query and any other name, id and
\* description give the same string; for score 0.95, "Chairs", 1500 it is
\* the three clauses "Highly similar ...", "... Chairs ...", "Premium
\* quality" joined by "; ".
C4_ReasonPure ==
    (pc = "done" /\ req.op \in RecommendOps /\ out.ok) =>
        \A i \in 1..Len(out.value) :
            LET p == out.value[i] IN
            /\ \A q \in Queries \cup {""}, id \in Ids, name \in {p.name, "Other"} :
                  ReasonOf(q,
                           [category |-> p.category, price |-> p.price,
                            id |-> id, name |-> name, description |-> "text"],
                           p.similarity_score)
                    = p.recommendation_reason
            /\ (p.similarity_score = 95 /\ p.category = "Chairs" /\ p.price = 1500)
                  => p.recommendation_reason =
                        "Highly similar to your search; Popular in Chairs category; Premium quality"

\* a recommendation with score 0.95, category "Chairs" and price 1500
C4_Witness ==
    /\ Done("get_recommendations") /\ out.ok
    /\ \E i \in 1..Len(out.value) :
          /\ out.value[i].similarity_score = 95
          /\ out.value[i].category = "Chairs"
          /\ out.value[i].price = 1500

\* C5: the budget, mid_range and premium counts of get_analytics_metrics add
\* up to the number of priced (non-zero price) products of the catalog.
C5_BucketsPartition ==
    (Done("get_analytics_metrics") /\ out.ok /\ "price_ranges" \in DOMAIN out.value) =>
        out.value.price_ranges.budget + out.value.price_ranges.mid_range
            + out.value.price_ranges.premium
          = Cardinality({i \in 1..Len(catalog) : catalog[i].metadata.price # 0})

\* metrics over a catalog with an unpriced product, a product priced 200
\* (the budget/mid_range border) and a premium one
C5_Witness ==
    /\ Done("get_analytics_metrics") /\ out.ok
    /\ \E i, j, k \in 1..Len(catalog) :
          /\ catalog[i].metadata.price = 0
          /\ catalog[j].metadata.price = BUDGET_BELOW
          /\ catalog[k].metadata.price >= PREMIUM_FROM
    /\ out.value.price_ranges.mid_range = 1

\* what get_product_by_id returns for id on catalog cat
FetchView(cat, id) == get_product_by_id(TRUE, cat, "up", id).value

\* C6: storing the same product list a second time leaves every
\* get_product_by_id answer as it was after the first time.
C6_UpsertIdempotent ==
    [][StoreProductsAgain =>
          \A id \in Ids : FetchView(catalog', id) = FetchView(catalog, id)]_vars

\* a list of two products was stored twice, both times successfully
C6_Witness ==
    /\ Done("store_products_in_pinecone") /\ out.ok
    /\ req.attempt = 2
    /\ Len(req.products) = 2
    /\ \A i \in 1..2 : FetchView(catalog, req.products[i].uniq_id) # None

\* the catalog {a: Chairs, 150; b: Tables, 900}
E2ECatalog ==
    /\ Len(catalog) = 2
    /\ \E i, j \in 1..2 :
          /\ catalog[i].id = "a" /\ catalog[i].metadata.category = "Chairs"
          /\ catalog[i].metadata.price = 150
          /\ catalog[j].id = "b" /\ catalog[j].metadata.category = "Tables"
          /\ catalog[j].metadata.price = 900

\* a's similarity to the query is at least the threshold, b's is below it
E2EQuery(q) ==
    \A i \in 1..Len(catalog) :
        (catalog[i].id = "a") <=>
            Cosine(Encode(<<q>>), catalog[i].values) >= SIMILARITY_THRESHOLD

\* C7: on the catalog {a: Chairs 150 near the query, b: Tables 900 far from
\* it}, get_recommendations(query, top_k=5) returns exactly [a] and
\* get_trending_products(top_k=1) returns exactly [b].
C7_EndToEnd ==
    (pc = "done" /\ out.ok /\ E2ECatalog) =>
        /\ (/\ req.op = "get_recommendations" /\ req.top_k = Some(DEFAULT_TOP_K)
            /\ req.category = None /\ req.price_min = None /\ req.price_max = None
            /\ E2EQuery(req.query))
              => IdsOf(out.value) = <<"a">>
        /\ (req.op = "get_trending_products" /\ req.top_k = Some(1))
              => IdsOf(out.value) = <<"b">>

\* the recommend call of the scenario has returned
C7_Witness ==
    /\ Done("get_recommendations") /\ out.ok /\ E2ECatalog
    /\ req.top_k = Some(DEFAULT_TOP_K)
    /\ req.category = None /\ req.price_min = None /\ req.price_max = None
    /\ E2EQuery(req.query)

ListingOps ==
    {"get_recommendations", "get_category_recommendations",
     "get_trending_products", "get_all_products"}

\* C8: on an empty catalog, with the backend up and top_k not negative,
\* every listing operation returns the empty list and raises nothing.
C8_EmptyCatalog ==
    (/\ pc = "done" /\ req.op \in ListingOps
     /\ catalog = <<>> /\ backend = "up" /\ TopKNotNegative)
        => out.ok /\ out.value = <<>>

\* a listing on a cold start: the index did not exist yet and was created
C8_Witness ==
    /\ Done("get_trending_products")
    /\ catalog = <<>> /\ backend = "up" /\ TopKNotNegative
    /\ out.ok
    /\ \E i \in 1..Len(out.calls) : out.calls[i] = "create_index"

\* the exception type a backend failure reaches the caller with
BackendErrorType == Wrap("", LibraryError("query")).type

\* C9: a product id absent from the catalog makes get_similar_products end
\* in an error whose type differs from a backend error's, and the similar
\* route answer 404 rather than the 500 of a backend failure.
C9_NotFoundDistinct ==
    (/\ pc = "done" /\ req.op \in SimilarOps
     /\ Position(catalog, req.product_id) = 0
     /\ backend = "up"
     /\ req.top_k # None /\ req.top_k[1] >= 1)
        => /\ ~out.ok
           /\ out.exc.type # BackendErrorType
           /\ req.op = "GET /{product_id}/similar" => out.http = HTTP_NOT_FOUND

EngineOps ==
    {"get_recommendations", "get_similar_products",
     "get_category_recommendations", "get_trending_products"}

\* the outcome of the call in req with top_k = DEFAULT_TOP_K given explicitly
OutcomeWithDefaultTopK ==
    CASE req.op = "get_recommendations" ->
            get_recommendations(TRUE, catalog, backend, req.query,
                                Some(DEFAULT_TOP_K), req.category,
                                req.price_min, req.price_max)
      [] req.op = "get_similar_products" ->
            get_similar_products(TRUE, catalog, backend, req.product_id,
                                 Some(DEFAULT_TOP_K), req.exclude_self)
      [] req.op = "get_category_recommendations" ->
            get_category_recommendations(TRUE, catalog, backend, req.category[1],
                                         Some(DEFAULT_TOP_K), req.price_min,
                                         req.price_max)
      [] req.op = "get_trending_products" ->
            get_trending_products(TRUE, catalog, backend, Some(DEFAULT_TOP_K))

\* C10: in every engine operation an unset top_k gives the result of
\* top_k = DEFAULT_TOP_K, and a top_k of 0 or less is rejected with no
\* external call made.
C10_TopKValidated ==
    (pc = "done" /\ req.op \in EngineOps) =>
        /\ req.top_k = None =>
              /\ out.ok = OutcomeWithDefaultTopK.ok
              /\ out.value = Outcome(OutcomeWithDefaultTopK, 0).value
        /\ (req.top_k # None /\ req.top_k[1] <= 0) =>
              ~out.ok /\ out.calls = <<>>

\* the first half of C10 alone: an unset top_k gives the result of
\* top_k = DEFAULT_TOP_K
C10_UnsetIsDefault ==
    (pc = "done" /\ req.op \in EngineOps /\ req.top_k = None) =>
        /\ out.ok = OutcomeWithDefaultTopK.ok
        /\ out.value = Outcome(OutcomeWithDefaultTopK, 0).value

\* an external call of kind c was made by the call in req
Called(c) == \E i \in 1..Len(out.calls) : out.calls[i] = c

\* C11: an engine operation during which the embedding call or an index
\* call fails ends in an error (a wrapped Exception), never in a result
\* list; with every external call answering, the operation returns a
\* result, which may be the empty list.
C11_ErrorsPropagate ==
    (pc = "done" /\ req.op \in EngineOps) =>
        /\ backend = "query_down" => ~out.ok
        /\ (backend = "embed_down" /\ Called("encode")) => ~out.ok
        /\ ~out.ok => out.exc.type = "Exception" /\ out.value = <<>>
        /\ (/\ backend = "up" /\ TopKNotNegative
            /\ req.op = "get_similar_products"
                  => Position(catalog, req.product_id) # 0)
              => out.ok

\* the embedding call failed during get_recommendations on a catalog with
\* products near the query
C11_Witness ==
    /\ Done("get_recommendations") /\ backend = "embed_down"
    /\ out.calls[Len(out.calls)] = "encode"
    /\ ~out.ok
    /\ \E i \in 1..Len(catalog) :
          Cosine(Encode(<<req.query>>), catalog[i].values) >= SIMILARITY_THRESHOLD

\* get_recommendations returned the empty list from a non-empty catalog
\* because no product reached the similarity floor
C11_EmptyByThreshold ==
    /\ Done("get_recommendations") /\ backend = "up" /\ out.ok
    /\ catalog # <<>> /\ out.value = <<>>
    /\ req.category = None /\ req.price_min = None /\ req.price_max = None

\* C12: every engine request that waits in an external call eventually
\* completes, with a result or with a reported error.
C12_NoHang == (pc = "blocked") ~> (pc = "done")

\* how many of the calls are of kind c
CountCalls(calls, c) == Cardinality({i \in 1..Len(calls) : calls[i] = c})

\* C13: get_or_create_index issues create_index only when the index is not
\* listed: a call that returns on a missing index has created it with one
\* create_index, and once the index exists no later call issues
\* create_index or removes the index.
C13_GetOrCreateIdempotent ==
    [][/\ indexExists =>
            indexExists' /\ CountCalls(out'.calls, "create_index") = 0
       /\ (pc' = "done" /\ ~indexExists) =>
            /\ CountCalls(out'.calls, "create_index") <= 1
            /\ indexExists' <=> CountCalls(out'.calls, "create_index") = 1
            /\ CountCalls(out'.calls, "list_indexes") >= 1 => indexExists'
      ]_vars

\* get_similar_products ran get_or_create_index twice on an existing index
\* (for the fetch and for the search) and neither call created anything
C13_Witness ==
    /\ Done("get_similar_products") /\ out.ok /\ indexExists
    /\ CountCalls(out.calls, "list_indexes") = 2
    /\ CountCalls(out.calls, "create_index") = 0

\* a cold start: the first get_or_create_index created the index
C13_ColdStart ==
    /\ Done("get_recommendations") /\ out.ok /\ indexExists
    /\ out.calls[1] = "list_indexes" /\ out.calls[2] = "create_index"

\* what request r returns when it runs alone on the index as it is
Alone(r) ==
    CASE r.op = "get_recommendations" ->
            get_recommendations(indexExists, catalog, backend, r.query, r.top_k,
                                r.category, r.price_min, r.price_max)
      [] r.op = "get_similar_products" ->
            get_similar_products(indexExists, catalog, backend, r.product_id,
                                 r.top_k, r.exclude_self)
      [] r.op = "get_category_recommendations" ->
            get_category_recommendations(indexExists, catalog, backend,
                                         r.category[1], r.top_k, r.price_min,
                                         r.price_max)
      [] r.op = "get_trending_products" ->
            get_trending_products(indexExists, catalog, backend, r.top_k)

\* C14: in every interleaving of concurrent engine calls on an existing,
\* unchanging index, no step of a call changes a field of the service
\* instances, and each call ends with the outcome it has when run alone.
C14_Stateless ==
    [][/\ products_data' = products_data
       /\ \A w \in Workers :
            (workers[w].pc # "done" /\ workers'[w].pc = "done" /\ workers[w].warm)
              => /\ workers'[w].out.ok = Alone(workers[w].req).ok
                 /\ workers'[w].out.value = Outcome(Alone(workers[w].req), 0).value
                 /\ workers'[w].out.exc = Outcome(Alone(workers[w].req), 0).exc
      ]_vars

\* a call has returned a non-empty result while a call of another method
\* was between its external calls
C14_Witness ==
    \E w, v \in Workers :
        /\ workers[w].pc = "done" /\ workers[w].warm
        /\ workers[w].out.ok /\ Len(workers[w].out.value) >= 1
        /\ workers[v].pc \in {"fetch", "list2", "query"}
        /\ workers[v].req.op # workers[w].req.op
        /\ products_data # <<>>

\* on a cold start two calls both found the index missing, and the one
\* whose create_index came second ended in an error
C14_ColdStartConflict ==
    \E w, v \in Workers :
        /\ w # v
        /\ workers[w].pc = "done" /\ ~workers[w].out.ok
        /\ CountCalls(workers[w].calls, "create_index") = 1
        /\ CountCalls(workers[v].calls, "create_index") = 1

\* the filter arguments of the call in req that were supplied (not None)
NoFilterSupplied ==
    req.category = None /\ req.price_min = None /\ req.price_max = None

\* every returned item is within the supplied price bounds, and a call with
\* no filter argument queries the index with no filter
PriceBoundsAndNoFilter ==
    /\ \A i \in 1..Len(out.value) :
          /\ req.price_min # None => out.value[i].price >= req.price_min[1]
          /\ req.price_max # None => out.value[i].price <= req.price_max[1]
    /\ NoFilterSupplied =>
          \A i \in 1..Len(out.asked) : out.asked[i].filter = <<>>

\* C15: every item get_recommendations returns has category equal to the
\* supplied category_filter, price >= the supplied price_min (0 included)
\* and price <= the supplied price_max; with no filter argument supplied
\* the index is queried with no filter.
C15_FilterConjunction ==
    (Done("get_recommendations") /\ out.ok) =>
        /\ PriceBoundsAndNoFilter
        /\ req.category # None =>
              \A i \in 1..Len(out.value) : out.value[i].category = req.category[1]

\* C15 for every category_filter but the empty string
C15_NonEmptyCategory ==
    (Done("get_recommendations") /\ out.ok) =>
        /\ PriceBoundsAndNoFilter
        /\ (req.category # None /\ req.category[1] # "") =>
              \A i \in 1..Len(out.value) : out.value[i].category = req.category[1]

\* price_min = 0 was supplied and reached the index as a $gte bound
C15_PriceMinZero ==
    /\ Done("get_recommendations") /\ out.ok /\ Len(out.value) >= 1
    /\ req.price_min = Some(0)
    /\ out.asked[1].filter.price["$gte"] = 0

\* top_k is unset or at least 1
TopKPositiveOrUnset == req.top_k = None \/ req.top_k[1] >= 1

\* the top_k of the call in req, DEFAULT_TOP_K when unset
RequestedTopK == IF req.top_k = None THEN DEFAULT_TOP_K ELSE req.top_k[1]

\* C16: get_trending_products (top_k unset or positive, catalog within the
\* scan of 100) returns min(top_k, catalog size) products of the catalog in
\* non-increasing price order, each with similarity_score 0.9 and reason
\* "Trending product", and no product left out is priced above one
\* returned.
C16_Trending ==
    (/\ Done("get_trending_products") /\ out.ok /\ TopKPositiveOrUnset
     /\ Len(catalog) <= TRENDING_SCAN_LIMIT) =>
        /\ Len(out.value) =
              (IF RequestedTopK < Len(catalog) THEN RequestedTopK ELSE Len(catalog))
        /\ \A i \in 1..Len(out.value) :
              /\ out.value[i].similarity_score = TRENDING_SCORE
              /\ out.value[i].recommendation_reason = "Trending product"
              /\ \E c \in 1..Len(catalog) :
                    /\ catalog[c].id = out.value[i].id
                    /\ catalog[c].metadata.price = out.value[i].price
        /\ \A i, j \in 1..Len(out.value) :
              i < j => /\ out.value[i].price >= out.value[j].price
                       /\ out.value[i].id # out.value[j].id
        /\ \A c \in 1..Len(catalog), i \in 1..Len(out.value) :
              (\A j \in 1..Len(out.value) : out.value[j].id # catalog[c].id)
                => out.value[i].price >= catalog[c].metadata.price

\* top_k = 1 on a catalog of three products: the one returned is not the
\* first stored, and one with price 0 is left out
C16_Witness ==
    /\ Done("get_trending_products") /\ out.ok
    /\ req.top_k = Some(1) /\ Len(out.value) = 1
    /\ Len(catalog) = 3
    /\ out.value[1].id # catalog[1].id
    /\ \E c \in 1..3 : catalog[c].metadata.price = 0

\* filter f is the conjunction of exactly the constraints supplied in req
\* (an empty category_filter counts as not supplied)
IsBuiltFilter(f) ==
    /\ "category" \in DOMAIN f <=> (req.category # None /\ req.category[1] # "")
    /\ "category" \in DOMAIN f => f.category = [x \in {"$eq"} |-> req.category[1]]
    /\ "price" \in DOMAIN f <=> (req.price_min # None \/ req.price_max # None)
    /\ "price" \in DOMAIN f =>
          /\ "$gte" \in DOMAIN f.price <=> req.price_min # None
          /\ "$gte" \in DOMAIN f.price => f.price["$gte"] = req.price_min[1]
          /\ "$lte" \in DOMAIN f.price <=> req.price_max # None
          /\ "$lte" \in DOMAIN f.price => f.price["$lte"] = req.price_max[1]

\* C17: a get_recommendations call (top_k unset or positive) issues one
\* index query, none if the embedding call failed before it; the query asks
\* for 2 x top_k candidates under the built filter, and the call returns at
\* most top_k items.
C17_OneQueryTwiceTopK ==
    (pc = "done" /\ req.op \in RecommendOps /\ TopKPositiveOrUnset) =>
        /\ Len(out.asked) = CountCalls(out.calls, "query")
        /\ Len(out.asked) = (IF Called("encode") /\ backend # "embed_down"
                             THEN 1 ELSE 0)
        /\ \A i \in 1..Len(out.asked) :
              /\ out.asked[i].top_k = 2 * RequestedTopK
              /\ IsBuiltFilter(out.asked[i].filter)
        /\ out.ok => Len(out.asked) = 1 /\ Len(out.value) <= RequestedTopK

\* top_k = 1 with a price filter on a catalog where two products pass
\* filter and floor: two candidates asked for, one item returned
C17_Witness ==
    /\ Done("get_recommendations") /\ out.ok
    /\ req.top_k = Some(1) /\ req.price_min # None
    /\ out.asked[1].top_k = 2 /\ Len(out.value) = 1
    /\ Cardinality({c \in 1..Len(catalog) :
          /\ MatchesFilter(catalog[c].metadata, out.asked[1].filter)
          /\ Cosine(Encode(<<req.query>>), catalog[c].values)
                >= SIMILARITY_THRESHOLD}) >= 2

\* the ids of the candidates in the order the index returned them to the
\* get_recommendations call in req
IndexOrder ==
    IdsOf(IndexQuery(catalog, Encode(<<req.query>>), 2 * ResolveTopK(req.top_k),
                     BuildFilters(req.category, req.price_min, req.price_max)))

\* the place of id in a list of ids
PlaceOf(ids, id) == CHOOSE i \in 1..Len(ids) : ids[i] = id

\* C18: two items of a get_recommendations result with equal
\* similarity_score stand in the order in which the index returned them.
C18_StableTies ==
    (pc = "done" /\ req.op \in RecommendOps /\ out.ok) =>
        \A i, j \in 1..Len(out.value) :
            (i < j /\ out.value[i].similarity_score = out.value[j].similarity_score)
              => PlaceOf(IndexOrder, out.value[i].id)
                   < PlaceOf(IndexOrder, out.value[j].id)

\* a result with two items of equal score before one of a lower score, the
\* two stored in the catalog in the order c, a
C18_Witness ==
    /\ Done("get_recommendations") /\ out.ok
    /\ Len(out.value) = 3
    /\ out.value[1].similarity_score = out.value[2].similarity_score
    /\ out.value[2].similarity_score > out.value[3].similarity_score
    /\ IdsOf(out.value) = <<"c", "a", "b">>

\* the clauses the reason of the call in req is to have, in order
ExpectedClauses ==
    LET s == req.similarity_score
        price == IF req.price = None THEN 0 ELSE req.price[1]
    IN  (IF s > 90 THEN <<"Highly similar to your search">> ELSE <<>>) \o
        (IF 80 < s /\ s <= 90 THEN <<"Very similar to your search">> ELSE <<>>) \o
        (IF 70 < s /\ s <= 80 THEN <<"Similar to your search">> ELSE <<>>) \o
        (IF req.category # None /\ req.category[1] # ""
         THEN <<"Popular in " \o req.category[1] \o " category">> ELSE <<>>) \o
        (IF price > 1000 THEN <<"Premium quality">> ELSE <<>>) \o
        (IF price < 200 THEN <<"Great value">> ELSE <<>>)

\* C19: the reason is the similarity clause (score > 0.9, 0.8 < score <=
\* 0.9, 0.7 < score <= 0.8, else none), the category clause (category
\* present and non-empty) and the price clause (price > 1000, price < 200,
\* none from 200 to 1000), joined by "; " in that order, and "Recommended
\* for you" exactly when there is no clause.
C19_ReasonTiers ==
    Done("_get_recommendation_reason") =>
        /\ ExpectedClauses # <<>> => out.value = Join(ExpectedClauses, "; ")
        /\ ExpectedClauses = <<>> <=> out.value = "Recommended for you"

\* the fallback: score exactly 0.7, no category, price exactly 200
C19_Witness ==
    /\ Done("_get_recommendation_reason")
    /\ req.similarity_score = 70 /\ req.category = Some("") /\ req.price = Some(200)
    /\ out.value = "Recommended for you"

\* the borders: score exactly 0.9 is "Very similar", price exactly 1000
\* has no price clause
C19_Borders ==
    /\ Done("_get_recommendation_reason")
    /\ req.similarity_score = 90 /\ req.category = Some("Chairs")
    /\ req.price = Some(1000)
    /\ out.value = "Very similar to your search; Popular in Chairs category"

\* the catalog positions of the products of the category and within the
\* price bounds of the call in req
InCategoryAndBounds ==
    {c \in 1..Len(catalog) :
        /\ catalog[c].metadata.category = req.category[1]
        /\ req.price_min # None => catalog[c].metadata.price >= req.price_min[1]
        /\ req.price_max # None => catalog[c].metadata.price <= req.price_max[1]}

\* C20: get_category_recommendations returns min(top_k, n) of the n
\* products of the category (within the price bounds), whatever their
\* similarity to the category name, each with its score from the index and
\* the reason "Popular in <category> category".
C20_NoFloorInCategory ==
    (Done("get_category_recommendations") /\ out.ok) =>
        /\ Len(out.value) =
              (IF ResolveTopK(req.top_k) < Cardinality(InCategoryAndBounds)
               THEN ResolveTopK(req.top_k) ELSE Cardinality(InCategoryAndBounds))
        /\ \A i \in 1..Len(out.value) :
              /\ \E c \in InCategoryAndBounds :
                    /\ catalog[c].id = out.value[i].id
                    /\ out.value[i].similarity_score =
                          Cosine(Encode(<<req.category[1]>>), catalog[c].values)
              /\ out.value[i].recommendation_reason =
                    "Popular in " \o req.category[1] \o " category"
        /\ \A i, j \in 1..Len(out.value) : i # j => out.value[i].id # out.value[j].id

\* a product under the similarity floor was returned
C20_Witness ==
    /\ Done("get_category_recommendations") /\ out.ok
    /\ \E i \in 1..Len(out.value) :
          out.value[i].similarity_score < SIMILARITY_THRESHOLD

\* the sum of the values of a dict of numbers
RECURSIVE SumValues(_)
SumValues(d) ==
    IF DOMAIN d = {} THEN 0
    ELSE LET k == CHOOSE k \in DOMAIN d : TRUE
         IN  d[k] + SumValues([x \in DOMAIN d \ {k} |-> d[x]])

\* C21: get_analytics_metrics reports the catalog as it is when the call
\* is made: total_products is min(catalog size, 1000), every product stored
\* before the call is counted, and the counts in 'categories' add up to
\* total_products.
C21_MetricsFresh ==
    (Done("get_analytics_metrics") /\ out.ok) =>
        /\ out.value.total_products =
              (IF Len(catalog) < ANALYTICS_SCAN_LIMIT
               THEN Len(catalog) ELSE ANALYTICS_SCAN_LIMIT)
        /\ SumValues(out.value.categories) = out.value.total_products
        /\ \A c \in 1..Len(catalog) :
              /\ catalog[c].metadata.category \in DOMAIN out.value.categories
              /\ out.value.categories[catalog[c].metadata.category] =
                    Cardinality({x \in 1..Len(catalog) :
                        catalog[x].metadata.category = catalog[c].metadata.category})

\* metrics over a catalog of three products, one of them without a price
C21_Witness ==
    /\ Done("get_analytics_metrics") /\ out.ok
    /\ Len(catalog) = 3 /\ out.value.total_products = 3
    /\ \E c \in 1..3 : catalog[c].metadata.price = 0

\* the pages of size limit from page number j on, one after the other
RECURSIVE PagesFrom(_, _)
PagesFrom(limit, j) ==
    IF j * limit >= Len(catalog) THEN <<>>
    ELSE get_all_products(TRUE, catalog, "up", limit, j * limit).value
            \o PagesFrom(limit, j + 1)

\* C23: with no write in between, get_all_products(limit, offset) returns
\* the records at positions [offset, offset+limit) of the backend order, at
\* most limit of them, and the pages at offsets 0, limit, 2*limit, ... are
\* disjoint and list every stored record exactly once.
C23_Pages ==
    (Done("get_all_products") /\ out.ok) =>
        /\ Len(out.value) <= req.limit
        /\ Len(out.value) =
              (IF req.offset >= Len(catalog) THEN 0
               ELSE IF req.offset + req.limit <= Len(catalog) THEN req.limit
               ELSE Len(catalog) - req.offset)
        /\ \A i \in 1..Len(out.value) :
              out.value[i] = Merge([id |-> catalog[req.offset + i].id],
                                   catalog[req.offset + i].metadata)
        /\ LET all == PagesFrom(req.limit, 0)
           IN  /\ Len(all) = Len(catalog)
               /\ \A i \in 1..Len(catalog) : all[i].id = catalog[i].id
               /\ \A i, j \in 1..Len(all) : all[i].id = all[j].id => i = j

\* the second page of size 2 of a catalog of three products holds the third
C23_Witness ==
    /\ Done("get_all_products") /\ out.ok
    /\ Len(catalog) = 3 /\ req.limit = 2 /\ req.offset = 2
    /\ Len(out.value) = 1 /\ out.value[1].id = catalog[3].id

\* the catalog positions that pass the filter sent for the call in req (an
\* empty category_filter sends no category constraint) and score at least
\* SIMILARITY_THRESHOLD against the query
Qualifying ==
    {c \in 1..Len(catalog) :
        /\ (req.category # None /\ req.category[1] # "") =>
              catalog[c].metadata.category = req.category[1]
        /\ req.price_min # None => catalog[c].metadata.price >= req.price_min[1]
        /\ req.price_max # None => catalog[c].metadata.price <= req.price_max[1]
        /\ Cosine(Encode(<<req.query>>), catalog[c].values) >= SIMILARITY_THRESHOLD}

\* C24: for a positive (or unset) top_k, get_recommendations returns the
\* top_k highest-scoring products among all catalog products that pass the
\* filter and score at least SIMILARITY_THRESHOLD: min(top_k, number of such
\* products) items, all of them qualifying, none scoring below a qualifying
\* product that was left out.
C24_OversamplingLosesNothing ==
    (Done("get_recommendations") /\ out.ok /\ TopKPositiveOrUnset) =>
        /\ Len(out.value) =
              (IF RequestedTopK < Cardinality(Qualifying)
               THEN RequestedTopK ELSE Cardinality(Qualifying))
        /\ \A i \in 1..Len(out.value) :
              \E c \in Qualifying :
                  /\ catalog[c].id = out.value[i].id
                  /\ out.value[i].similarity_score =
                        Cosine(Encode(<<req.query>>), catalog[c].values)
        /\ \A c \in Qualifying :
              (\A i \in 1..Len(out.value) : out.value[i].id # catalog[c].id) =>
                  \A i \in 1..Len(out.value) :
                      out.value[i].similarity_score >=
                          Cosine(Encode(<<req.query>>), catalog[c].values)

\* top_k = 1 on a catalog with two qualifying products, the better one
\* stored last, and a third product under the floor
C24_Witness ==
    /\ Done("get_recommendations") /\ out.ok
    /\ req.top_k = Some(1) /\ Len(catalog) = 3
    /\ Cardinality(Qualifying) = 2
    /\ Len(out.value) = 1 /\ out.value[1].id = catalog[3].id

\* C25: on a catalog of N products that holds the reference product,
\* get_similar_products(id, top_k, exclude_self = true) with a positive (or
\* unset) top_k returns min(top_k, N - 1) items, whether the reference
\* product is among the top_k + 1 matches of its own query or not.
C25_SimilarCount ==
    (Done("get_similar_products") /\ out.ok /\ req.exclude_self
        /\ TopKPositiveOrUnset) =>
        Len(out.value) = (IF RequestedTopK < Len(catalog) - 1
                          THEN RequestedTopK ELSE Len(catalog) - 1)

\* the reference product is stored third of three products with one
\* embedding: the two matches asked for top_k = 1 are the other two
C25_Witness ==
    /\ Done("get_similar_products") /\ out.ok /\ req.exclude_self
    /\ req.top_k = Some(1) /\ Len(catalog) = 3
    /\ catalog[3].id = req.product_id
    /\ catalog[1].values = catalog[3].values
    /\ catalog[2].values = catalog[3].values
    /\ out.asked[1].top_k = 2
    /\ IdsOf(out.value) = <<catalog[1].id>>

\* the sample queries for which get_recommendations returned without error
SamplesReturned ==
    {i \in DOMAIN test_queries :
        get_recommendations(TRUE, catalog,
                            IF i \in req.failing THEN "query_down" ELSE "up",
                            test_queries[i], Some(QUALITY_TOP_K),
                            None, None, None).ok}

\* C22: get_recommendation_quality_metrics runs the 5 sample queries, a
\* sample query that raises does not stop the others, and
\* successful_queries is the number of sample queries for which
\* get_recommendations returned without error.
C22_SuccessfulCountsReturns ==
    Done("get_recommendation_quality_metrics") =>
        /\ out.ok
        /\ out.value.test_queries = 5
        /\ CountCalls(out.calls, "list_indexes") = 5
        /\ out.value.successful_queries = Cardinality(SamplesReturned)

\* what holds instead: every sample query is run whatever the others did,
\* and successful_queries counts the sample queries that returned a
\* non-empty list
C22_CountsNonEmpty ==
    Done("get_recommendation_quality_metrics") =>
        /\ out.ok
        /\ out.value.test_queries = 5
        /\ CountCalls(out.calls, "list_indexes") = 5
        /\ SamplesReturned = DOMAIN test_queries \ req.failing
        /\ out.value.successful_queries =
              Cardinality({i \in SamplesReturned :
                  get_recommendations(TRUE, catalog, "up", test_queries[i],
                                      Some(QUALITY_TOP_K), None, None, None).value
                      # <<>>})

\* one sample query raised and the four after and before it were counted
C22_OneRaised ==
    /\ Done("get_recommendation_quality_metrics")
    /\ req.failing = {3}
    /\ out.value.successful_queries = 4

\* C27: the snapshot of get_analytics_metrics has the same fields for every
\* catalog, the empty one included (total_products, categories,
\* category_insights, price_statistics with its min and max, price_ranges,
\* recommendation_insights), and the /metrics route answers 200 whenever
\* the index answers.
C27_SameFieldsAlways ==
    /\ (Done("get_analytics_metrics") /\ out.ok) =>
          /\ DOMAIN out.value = AnalyticsMetricsResponseFields
          /\ {"min", "max"} \subseteq DOMAIN out.value.price_statistics
    /\ (Done("GET /metrics") /\ backend = "up") => out.http = HTTP_OK

\* what holds instead: the fields are all there, and the route answers 200,
\* when the catalog holds at least one record
C27_SameFieldsNonEmpty ==
    Len(catalog) > 0 => C27_SameFieldsAlways

\* the /metrics route on the empty catalog
C27_EmptyCatalogRoute ==
    /\ Done("GET /metrics") /\ catalog = <<>>
    /\ out.http = HTTP_SERVICE_ERROR /\ out.exc.type = "ValidationError"

\* the catalog positions counted into category key c
CountedInto(c) ==
    {i \in 1..Len(catalog) : Get(catalog[i].metadata, "category", "Unknown") = c}

\* the non-zero prices of the products counted into category key c
PricesCountedInto(c) ==
    {Get(catalog[i].metadata, "price", 0) : i \in CountedInto(c)} \ {0}

\* C28: for every category key of get_analytics_metrics, 'Unknown'
\* included, the count in category_insights is the number of products
\* counted into the key, and price_range min and max are the least and the
\* greatest non-zero price of exactly those products (0 when there is none).
C28_RangeOverCounted ==
    (Done("get_analytics_metrics") /\ out.ok /\ Len(catalog) > 0) =>
        \A c \in DOMAIN out.value.categories :
            LET insight == out.value.category_insights[c]
                prices == PricesCountedInto(c)
            IN  /\ out.value.categories[c] = Cardinality(CountedInto(c))
                /\ insight.count = Cardinality(CountedInto(c))
                /\ insight.price_range.min =
                      (IF prices = {} THEN 0
                       ELSE CHOOSE x \in prices : \A y \in prices : x <= y)
                /\ insight.price_range.max =
                      (IF prices = {} THEN 0
                       ELSE CHOOSE x \in prices : \A y \in prices : x >= y)

\* what holds instead: the same, on catalogs where every record carries a
\* category field
C28_RangeWhenCategoryStored ==
    (\A i \in 1..Len(catalog) : "category" \in DOMAIN catalog[i].metadata) =>
        C28_RangeOverCounted

\* a record without category next to one stored as 'Unknown': both counted
\* under 'Unknown', the price range taken from the second alone
C28_UnknownKeyMixed ==
    /\ Done("get_analytics_metrics") /\ out.ok /\ Len(catalog) = 2
    /\ "category" \notin DOMAIN catalog[1].metadata
    /\ Get(catalog[1].metadata, "price", 0) = 150
    /\ out.value.categories["Unknown"] = 2
    /\ out.value.category_insights["Unknown"].price_range = [min |-> 900, max |-> 900]

\* C29: whatever the interleaving of the requests that call
\* get_or_create_index while the index is absent, at most one create_index
\* call is issued: the requests in flight have issued at most one between
\* them.
C29_AtMostOneCreate ==
    /\ \A w \in Workers : CountCalls(workers[w].calls, "create_index") <= 1
    /\ Cardinality({w \in Workers :
                       CountCalls(workers[w].calls, "create_index") = 1}) <= 1

\* the price of the call in req is unknown: missing, or stored as 0
PriceUnknown == req.price = None \/ req.price = Some(0)

\* the similarity and category clauses the reason of the call in req is to
\* have, in order
ClausesWithoutPrice ==
    LET s == req.similarity_score
    IN  (IF s > 90 THEN <<"Highly similar to your search">> ELSE <<>>) \o
        (IF 80 < s /\ s <= 90 THEN <<"Very similar to your search">> ELSE <<>>) \o
        (IF 70 < s /\ s <= 80 THEN <<"Similar to your search">> ELSE <<>>) \o
        (IF req.category # None /\ req.category[1] # ""
         THEN <<"Popular in " \o req.category[1] \o " category">> ELSE <<>>)

\* C30: a product whose price is unknown (0, or missing and defaulted to 0)
\* gets no price clause in its reason: the reason is made of the similarity
\* and category clauses alone, "Recommended for you" when there is none.
C30_NoTierForUnknownPrice ==
    (Done("_get_recommendation_reason") /\ PriceUnknown) =>
        out.value = (IF ClausesWithoutPrice # <<>>
                     THEN Join(ClausesWithoutPrice, "; ")
                     ELSE "Recommended for you")

\* what holds instead: "Great value" is attached to every price below 200,
\* the unknown price 0 included
C30_GreatValueBelow200 ==
    (Done("_get_recommendation_reason") /\ PriceUnknown) =>
        out.value = Join(ClausesWithoutPrice \o <<"Great value">>, "; ")

\* a product with no price field and no other clause is "Great value"
C30_MissingPriceGreatValue ==
    /\ Done("_get_recommendation_reason")
    /\ req.price = None /\ req.similarity_score = 70 /\ req.category = None
    /\ out.value = "Great value"

\* C26: with the routes matched in declaration order, GET /trending
\* reaches the trending handler, GET /embeddings the embeddings handler and
\* GET /category/{category} the category handler for every category value.
C26_StaticRoutesReachable ==
    (Done("dispatch") /\ req.method = "GET") =>
        /\ req.path = <<"trending">> => out.value = "get_trending_products"
        /\ req.path = <<"embeddings">> => out.value = "get_embeddings_for_analytics"
        /\ (Len(req.path) = 2 /\ req.path[1] = "category") =>
              out.value = "get_category_products"

\* what holds instead: every one-segment GET path but /all is taken by
\* /{product_id}, and /category/{category} is served by the category
\* handler unless the category is "similar"
C26_ParameterisedFirst ==
    (Done("dispatch") /\ req.method = "GET") =>
        /\ Len(req.path) = 1 =>
              out.value = (IF req.path = <<"all">> THEN "get_all_products"
                           ELSE "get_product")
        /\ (Len(req.path) = 2 /\ req.path[1] = "category") =>
              out.value = (IF req.path[2] = "similar" THEN "get_similar_products"
                           ELSE "get_category_products")

\* GET /api/products/trending is served as a product lookup
C26_TrendingCaptured ==
    /\ Done("dispatch") /\ req.method = "GET" /\ req.path = <<"trending">>
    /\ out.value = "get_product"

====
